---- MODULE Spec2Model ----
(***************************************************************************)
(* Model of the Mini Metro frame-analysis pipeline                         *)
(* (src/Game data extraction/image detection/attempt 2/detectors_py.py).   *)
(*                                                                         *)
(* Python objects live on a heap: `dicts` maps the address of every live   *)
(* dict to its contents (a function from key names to values, so a missing *)
(* key is a name outside the DOMAIN), `lists` maps the address of every    *)
(* live list to the sequence of dict addresses it holds.  Two names alias  *)
(* exactly when they hold the same address.                                *)
(***************************************************************************)
EXTENDS Integers, Sequences, FiniteSets, TLC

\* ------------------------------------------------------------------ bounds
MaxDet == 2          \* detections per frame
MaxAge == 6          \* track_objects is not called once a stored age reaches this
MaxLines == 3        \* thin contours in the map of one frame
MaxPending == 3      \* callbacks on the timer beyond which no tick is followed
MaxStops == 3        \* stations on the canvas, and stations along one line
MaxObstacles == 1    \* obstacles drawn on the canvas
MaxPlaced == 2       \* lines placed at one time
MaxTunnels == 3      \* tunnels in stock
MaxCircles == 2      \* circles in the line indicator of one frame

\* positions a detection can have: (100,100) and (105,102) are 5.4 apart,
\* (200,100) is far from both
Points == {<<100, 100>>, <<105, 102>>, <<200, 100>>}

None == 0            \* Python None where an address is expected
NoneData == <<>>     \* Python None where a result dictionary is expected

VARIABLES
  dicts,             \* heap: address -> contents of a live dict
  lists,             \* heap: address -> contents of a live list
  previous_objects,  \* the module global: category -> address of the stored list
  new_objects,       \* address of the list passed to the last track_objects call
  returned,          \* address of the list track_objects last returned: the
                     \* stations of the newest snapshot its caller holds
  raised,            \* the exception that escaped the last call, or "none"
  call,              \* the last call made from outside: its name and arguments
  result,            \* the value it returned (None if it raised)
  issued,            \* history: every id seen so far in a list track_objects returned
  prior,             \* history: the dicts of the list held before the last
                     \* track_objects call that this call changed, each as a pair
                     \* <<contents when the call began, contents when it ended>>
  analysis_running,  \* main.py globals (lines 70, 35, 36)
  error_count,
  last_valid_data,
  shown,             \* the dialog the last update_analysis tick opened, or "none"
  streak,            \* history: failing update_analysis ticks in a row, last one
                     \* included, counted anew after five
  pending,           \* update_analysis callbacks waiting on the Tk timer (root.after)
  invoked,           \* whether the last update_analysis tick called analyze_game_image
  collector          \* manual_data_collector.py: the MiniMetroDataCollector object

vars == <<dicts, lists, previous_objects, new_objects, returned, raised, call, result,
          issued, prior, analysis_running, error_count, last_valid_data, shown, streak,
          pending, invoked, collector>>

mainVars == <<analysis_running, error_count, last_valid_data, shown, streak,
              pending, invoked>>

trackerVars == <<dicts, lists, previous_objects, new_objects, returned, issued, prior>>

\* ------------------------------------------------------------ Python dicts
HasKey(d, k) == k \in DOMAIN d

SetKey(d, k, v) == [kk \in (DOMAIN d) \cup {k} |-> IF kk = k THEN v ELSE d[kk]]

\* obj.get('missing', False)
GetMissing(d) == IF HasKey(d, "missing") THEN d["missing"] ELSE FALSE

\* lowest address not in use in heap h
NewAddr(h) == CHOOSE a \in 1..(Cardinality(DOMAIN h) + 1) :
                 /\ a \notin DOMAIN h
                 /\ \A b \in 1..(a - 1) : b \in DOMAIN h

Store(h, a, v) == [b \in (DOMAIN h) \cup {a} |-> IF b = a THEN v ELSE h[b]]

Range(s) == {s[i] : i \in DOMAIN s}

\* ----------------------------------------------------- get_absolute_region
\* A fraction is kept in thousandths: 838 stands for 0.838.  int() of the
\* product truncates toward zero.
Trunc(n, d) == IF n >= 0 THEN n \div d ELSE -((-n) \div d)

IntOfProduct(frac, pixels) == Trunc(frac * pixels, 1000)

\* a conversion that rounds each product down instead of toward zero
get_absolute_region_floor(relative_region, win_width, win_height) ==
  <<(relative_region[1] * win_width) \div 1000,
    (relative_region[2] * win_height) \div 1000,
    (relative_region[3] * win_width) \div 1000,
    (relative_region[4] * win_height) \div 1000>>

\* lines 14-24: each of x, y, w, h from its own fraction and its own axis
get_absolute_region(relative_region, win_width, win_height) ==
  <<IntOfProduct(relative_region[1], win_width),
    IntOfProduct(relative_region[2], win_height),
    IntOfProduct(relative_region[3], win_width),
    IntOfProduct(relative_region[4], win_height)>>

\* -------------------------------------------------------------- ROI slicing
\* An image is known by its size [w, h]; what the vision library and the OCR
\* engine find in it comes with each call as an input.
Max(a, b) == IF a >= b THEN a ELSE b
Min(a, b) == IF a <= b THEN a ELSE b

\* Python's slice bounds on a sequence of length n: a negative index counts
\* from the end, and both ends are clamped into 0..n
SliceIndex(i, n) == IF i < 0 THEN Max(i + n, 0) ELSE Min(i, n)

SliceLen(n, start, stop) == Max(SliceIndex(stop, n) - SliceIndex(start, n), 0)

\* roi = image[y:y+h, x:x+w]: its number of columns and rows
RoiOf(image, rect) ==
  [w |-> SliceLen(image.w, rect[1], rect[1] + rect[3]),
   h |-> SliceLen(image.h, rect[2], rect[2] + rect[4])]

\* roi.size == 0
IsEmpty(roi) == roi.w = 0 \/ roi.h = 0

\* ---------------------------------------------------- numeric field readers
DigitChars == <<"0", "1", "2", "3", "4", "5", "6", "7", "8", "9">>

\* str.isdigit on one character of the OCR text
IsDigit(c) == \E i \in DOMAIN DigitChars : DigitChars[i] = c

\* ''.join(filter(str.isdigit, text))
Digits(text) == SelectSeq(text, IsDigit)

DigitValue(c) == (CHOOSE i \in DOMAIN DigitChars : DigitChars[i] = c) - 1

\* int(digits) for a non-empty string of decimal digits
RECURSIVE IntOf(_)
IntOf(digits) ==
  IF digits = <<>> THEN 0
  ELSE 10 * IntOf(SubSeq(digits, 1, Len(digits) - 1)) + DigitValue(digits[Len(digits)])

\* Lines 34-44, the body shared by the four readers: cut the ROI, convert it
\* to grayscale (cv2.cvtColor raises cv2.error on an image without pixels),
\* threshold, OCR (text is what the engine returns), keep the digits, parse;
\* int('') raises ValueError, which is caught.
ReadNumber(image, win_width, win_height, region, text) ==
  IF IsEmpty(RoiOf(image, get_absolute_region(region, win_width, win_height)))
  THEN [value |-> None, raised |-> "cv2.error"]
  ELSE IF Digits(text) = <<>>
       THEN [value |-> 0, raised |-> "none"]
       ELSE [value |-> IntOf(Digits(text)), raised |-> "none"]

\* region=None is written <<>>
OrDefault(region, default) == IF region = <<>> THEN default ELSE region

detect_score(image, win_width, win_height, region, text) ==
  ReadNumber(image, win_width, win_height, OrDefault(region, <<800, 0, 180, 100>>), text)

detect_available_trains(image, win_width, win_height, region, text) ==
  ReadNumber(image, win_width, win_height, OrDefault(region, <<100, 850, 200, 100>>), text)

detect_available_tunnels(image, win_width, win_height, region, text) ==
  ReadNumber(image, win_width, win_height, OrDefault(region, <<700, 850, 200, 100>>), text)

detect_available_wagons(image, win_width, win_height, region, text) ==
  ReadNumber(image, win_width, win_height, OrDefault(region, <<100, 750, 200, 100>>), text)

\* ----------------------------------------------------------- track_objects
\* squared scipy.spatial.distance.euclidean between two dicts' (x, y)
Dist2(p, q) == (p["x"] - q["x"]) * (p["x"] - q["x"]) + (p["y"] - q["y"]) * (p["y"] - q["y"])

MatchDist2 == 900    \* min_dist < 30, compared on the squares

\* np.argmin: the first index holding the least value (1-based here)
ArgMin(ds) == CHOOSE i \in DOMAIN ds :
                 /\ \A j \in DOMAIN ds : ds[i] <= ds[j]
                 /\ \A j \in 1..(i - 1) : ds[j] > ds[i]

\* One pass of `for prev_obj in previous_objects[object_type]` (lines 141-165).
\* st carries the heap of dicts, tracked_objects, used_indices (1-based) and
\* the exception raised so far; prev and new are the two lists' contents.
RECURSIVE MatchLoop(_, _, _, _)
MatchLoop(st, prev, new, k) ==
  IF k > Len(prev) \/ st.raised # "none" THEN st
  ELSE
    LET prev_obj == st.dicts[prev[k]]
        distances == [i \in DOMAIN new |-> Dist2(prev_obj, st.dicts[new[i]])]
    IN IF distances = <<>> THEN MatchLoop(st, prev, new, k + 1)
       ELSE
         LET min_idx == ArgMin(distances)
             min_dist == distances[min_idx]
         IN IF min_dist < MatchDist2 /\ min_idx \notin st.used
            THEN \* tracked_obj = new_objects[min_idx].copy()
                 IF ~HasKey(prev_obj, "id") \/ ~HasKey(prev_obj, "age")
                 THEN [st EXCEPT !.raised = "KeyError"]
                 ELSE LET a == NewAddr(st.dicts)
                          copy == st.dicts[new[min_idx]]
                          tracked_obj == SetKey(SetKey(copy, "id", prev_obj["id"]),
                                                "age", prev_obj["age"] + 1)
                      IN MatchLoop([st EXCEPT !.dicts = Store(st.dicts, a, tracked_obj),
                                              !.tracked = Append(st.tracked, a),
                                              !.used = st.used \cup {min_idx}],
                                   prev, new, k + 1)
            ELSE \* the object has disappeared
                 IF ~HasKey(prev_obj, "age")
                 THEN [st EXCEPT !.raised = "KeyError"]
                 ELSE IF prev_obj["age"] > 2
                      THEN MatchLoop([st EXCEPT
                                        !.dicts = Store(st.dicts, prev[k],
                                                        SetKey(prev_obj, "missing", TRUE)),
                                        !.tracked = Append(st.tracked, prev[k])],
                                     prev, new, k + 1)
                      ELSE MatchLoop(st, prev, new, k + 1)

\* `for i, new_obj in enumerate(new_objects)` (lines 168-172); i is 1-based,
\* so the code's `len(previous) + i` is nprev + (i - 1).
RECURSIVE AddNew(_, _, _, _)
AddNew(st, nprev, new, i) ==
  IF i > Len(new) THEN st
  ELSE IF i \in st.used THEN AddNew(st, nprev, new, i + 1)
  ELSE LET new_obj == st.dicts[new[i]]
           numbered == SetKey(SetKey(new_obj, "id", nprev + (i - 1)), "age", 1)
       IN AddNew([st EXCEPT !.dicts = Store(st.dicts, new[i], numbered),
                            !.tracked = Append(st.tracked, new[i])],
                 nprev, new, i + 1)

\* the second loop is not reached when the first raised
AddNewIfOk(st, nprev, new) == IF st.raised # "none" THEN st ELSE AddNew(st, nprev, new, 1)

\* [obj for obj in tracked_objects if not obj.get('missing', False)]
NotMissing(ds, tracked) == SelectSeq(tracked, LAMBDA a : ~GetMissing(ds[a]))

\* Lines 167-175, entered with the state st the matching loop left: number the
\* unclaimed detections, build the stored list, return tracked_objects.
TrackFinish(st, ls, prevAddr, newAddr) ==
  IF st.raised # "none"
  THEN [dicts |-> st.dicts, lists |-> ls, stored |-> prevAddr, ret |-> None,
        raised |-> st.raised]
  ELSE LET tAddr == NewAddr(ls)
           sAddr == NewAddr(Store(ls, tAddr, <<>>))
       IN [dicts |-> st.dicts,
           lists |-> Store(Store(ls, tAddr, st.tracked), sAddr,
                           NotMissing(st.dicts, st.tracked)),
           stored |-> sAddr, ret |-> tAddr, raised |-> "none"]

\* track_objects(new_objects, object_type) on heap (ds, ls) with stored list
\* address prevAddr and argument list address newAddr.  The result gives the
\* heap afterwards, the address bound to previous_objects[object_type], the
\* returned address (None when the call raised) and the exception.
track_objects(ds, ls, prevAddr, newAddr) ==
  IF ls[prevAddr] = <<>>
  THEN [dicts |-> ds, lists |-> ls, stored |-> newAddr, ret |-> newAddr, raised |-> "none"]
  ELSE TrackFinish(AddNewIfOk(MatchLoop([dicts |-> ds, tracked |-> <<>>, used |-> {},
                                         raised |-> "none"],
                                        ls[prevAddr], ls[newAddr], 1),
                              Len(ls[prevAddr]), ls[newAddr]),
                   ls, prevAddr, newAddr)

\* --------------------------------------------------- the caller's side
\* The dicts detect_stations builds for the contours of one frame (lines
\* 261-273): one fresh dict per bounding box, keyed by position.  width,
\* height, type and passengers ride along untouched by the tracker and are
\* left out.
StationDict(p) == [x |-> p[1], y |-> p[2]]

\* A caller of track_objects that numbers its detections itself before the call
NumberedDict(p, i) == [x |-> p[1], y |-> p[2], id |-> i - 1, age |-> 1]

\* every list of at most MaxDet positions
PointLists == UNION {[1..n -> Points] : n \in 0..MaxDet}

\* Allocate the dicts of seq (a sequence of dict contents) on ds, lowest free
\* addresses first; gives the heap and the addresses in order.
RECURSIVE AllocDicts(_, _, _)
AllocDicts(ds, seq, addrs) ==
  IF Len(addrs) = Len(seq) THEN [dicts |-> ds, addrs |-> addrs]
  ELSE LET a == NewAddr(ds)
       IN AllocDicts(Store(ds, a, seq[Len(addrs) + 1]), seq, Append(addrs, a))

\* ------------------------------------------------- reference counting
\* An address means nothing beyond identity.  After each call what is no
\* longer reachable from the tracker's state, the call's argument or its
\* result is freed, and the live objects are renumbered in the order in
\* which they are reached, so that two heaps that differ only in the
\* addresses are one state.
RECURSIVE Distinct(_, _)
Distinct(seq, acc) ==
  IF seq = <<>> THEN acc
  ELSE Distinct(Tail(seq), IF Head(seq) \in Range(acc) THEN acc ELSE Append(acc, Head(seq)))

RECURSIVE Flatten(_)
Flatten(seqs) == IF seqs = <<>> THEN <<>> ELSE Head(seqs) \o Flatten(Tail(seqs))

IndexOf(seq, v) == CHOOSE i \in DOMAIN seq : seq[i] = v

Categories == <<"stations", "trains", "passengers">>

Collect(ds, ls, prev, arg, ret) ==
  LET roots == [i \in 1..3 |-> prev[Categories[i]]] \o <<arg, ret>>
      lorder == Distinct(SelectSeq(roots, LAMBDA l : l # None), <<>>)
      dorder == Distinct(Flatten([i \in DOMAIN lorder |-> ls[lorder[i]]]), <<>>)
      L(l) == IF l = None THEN None ELSE IndexOf(lorder, l)
  IN [dicts |-> [a \in DOMAIN dorder |-> ds[dorder[a]]],
      lists |-> [l \in DOMAIN lorder |->
                   [j \in DOMAIN ls[lorder[l]] |-> IndexOf(dorder, ls[lorder[l]][j])]],
      previous_objects |-> [c \in DOMAIN prev |-> L(prev[c])],
      new_objects |-> L(arg),
      returned |-> L(ret)]

\* ages stored for a category
StoredAges(cat) ==
  {dicts[a]["age"] : a \in {b \in Range(lists[previous_objects[cat]]) : HasKey(dicts[b], "age")}}

\* ------------------------------------------------------------------- state
\* Module import (lines 8-12): three distinct empty lists.
InitHeap ==
  /\ dicts = <<>>
  /\ lists = [l \in 1..3 |-> <<>>]
  /\ previous_objects = [stations |-> 1, trains |-> 2, passengers |-> 3]
  /\ new_objects = None
  /\ returned = None
  /\ issued = {}
  /\ prior = {}

\* main.py lines 34-36 and 70 at import time; line 470 puts the first
\* update_analysis on the timer
InitMain ==
  /\ analysis_running = FALSE
  /\ error_count = 0
  /\ last_valid_data = NoneData
  /\ shown = "none"
  /\ streak = 0
  /\ pending = 1
  /\ invoked = FALSE

\* manual_data_collector.py MiniMetroDataCollector.__init__, lines 43-87: the
\* state variables, current_data and its resources; the overlay is withdrawn
\* (line 225) and the canvas does not exist before the first recording (line
\* 315).  checks holds the check_if_station callbacks waiting on the timer.
InitCollector ==
  collector = [recording |-> FALSE, game_active |-> FALSE,
               drawing_line |-> FALSE, current_line_index |-> None,
               extending_from_start |-> FALSE,
               drawing |-> FALSE, current_obstacle |-> <<>>,
               stations |-> <<>>, obstacles |-> <<>>, lines |-> <<>>,
               tunnels |-> 3, line_available |-> 3, line_placed |-> 0,
               overlay |-> "withdrawn", canvas |-> FALSE, checks |-> <<>>]

Init ==
  /\ InitHeap
  /\ InitMain
  /\ InitCollector
  /\ raised = "none"
  /\ call = [fn |-> "none"]
  /\ result = None

\* the tracker's side of the state, as one value
Heap == [dicts |-> dicts, lists |-> lists, previous_objects |-> previous_objects,
         new_objects |-> new_objects, returned |-> returned, issued |-> issued]

\* the dicts of the list at address l, in order (none for None)
Contents(ds, ls, l) == IF l = None THEN <<>> ELSE [i \in DOMAIN ls[l] |-> ds[ls[l][i]]]

IdsOf(seq) == {seq[i]["id"] : i \in {j \in DOMAIN seq : HasKey(seq[j], "id")}}

\* the dicts of the list at address l that differ between heaps ds0 and ds1
Changed(ds0, ds1, ls, l) ==
  IF l = None THEN {}
  ELSE {<<ds0[a], ds1[a]>> : a \in {b \in Range(ls[l]) : ds0[b] # ds1[b]}}

\* a call that ends (with exception exc) before it reaches track_objects
Untracked(h, exc) ==
  [dicts |-> h.dicts, lists |-> h.lists, previous_objects |-> h.previous_objects,
   new_objects |-> h.new_objects, returned |-> h.returned, issued |-> h.issued,
   prior |-> {}, raised |-> exc]

\* What track_objects (outcome r, on argument list nAddr) leaves of heap h:
\* the caller holds the new list if the call returned and the old one if not.
AfterTrack(h, r, nAddr, object_type) ==
  [dicts |-> r.dicts, lists |-> r.lists,
   previous_objects |-> [h.previous_objects EXCEPT ![object_type] = r.stored],
   new_objects |-> nAddr,
   returned |-> IF r.raised = "none" THEN r.ret ELSE h.returned,
   issued |-> IF r.raised = "none"
              THEN h.issued \cup IdsOf(Contents(r.dicts, r.lists, r.ret))
              ELSE h.issued,
   prior |-> Changed(h.dicts, r.dicts, h.lists, h.returned),
   raised |-> r.raised]

\* The caller builds a list of fresh dicts (contents) and calls
\* track_objects(that list, object_type) on heap h.
TrackWith(h, al, nAddr, object_type) ==
  AfterTrack(h, track_objects(al.dicts, Store(h.lists, nAddr, al.addrs),
                              h.previous_objects[object_type], nAddr),
             nAddr, object_type)

TrackStep(h, contents, object_type) ==
  TrackWith(h, AllocDicts(h.dicts, contents, <<>>), NewAddr(h.lists), object_type)

\* the heap after a call, garbage gone
SetHeap(r) ==
  \E heap \in {Collect(r.dicts, r.lists, r.previous_objects, r.new_objects, r.returned)} :
     /\ dicts' = heap.dicts
     /\ lists' = heap.lists
     /\ previous_objects' = heap.previous_objects
     /\ new_objects' = heap.new_objects
     /\ returned' = heap.returned
     /\ issued' = r.issued
     /\ prior' = r.prior

TrackCall(contents) ==
  /\ \A g \in StoredAges("stations") : g < MaxAge
  /\ \E r \in {TrackStep(Heap, contents, "stations")} :
       /\ SetHeap(r)
       /\ raised' = r.raised
       /\ call' = [fn |-> "track_objects", new_objects |-> contents]
       /\ result' = None
       /\ UNCHANGED <<mainVars, collector>>

\* ------------------------------------------------------ the other detectors
\* detect_stations (lines 239-276): cut the map ROI, convert it (cv2.error on
\* an image without pixels), find the contours that pass the size filters
\* (boxes: the centres of their bounding boxes, an input), build one dict per
\* box and hand the list to track_objects.
detect_stations(h, image, win_width, win_height, region, boxes) ==
  IF IsEmpty(RoiOf(image, get_absolute_region(OrDefault(region, <<0, 0, 1000, 800>>),
                                              win_width, win_height)))
  THEN Untracked(h, "cv2.error")
  ELSE TrackStep(h, [i \in DOMAIN boxes |-> StationDict(boxes[i])], "stations")

\* detect_trains (lines 334-383) on the contours of the colour mask (an
\* input, each with its bounding box and area): keep area 100..2000 and
\* aspect ratio 1.5..3.0, has_wagon when the ratio exceeds 2.2.  The ratio
\* bw / bh is compared in tenths.
TrainKept(c) ==
  /\ 100 <= c.area /\ c.area <= 2000
  /\ 15 * c.bh <= 10 * c.bw /\ 10 * c.bw <= 30 * c.bh

TrainDict(c) ==
  [position |-> <<c.bx + c.bw \div 2, c.by + c.bh \div 2>>,
   bbox |-> <<c.bx, c.by, c.bw, c.bh>>,
   has_wagon |-> 10 * c.bw > 22 * c.bh]

RECURSIVE TrainsOf(_)
TrainsOf(contours) ==
  IF contours = <<>> THEN <<>>
  ELSE (IF TrainKept(Head(contours)) THEN <<TrainDict(Head(contours))>> ELSE <<>>)
       \o TrainsOf(Tail(contours))

detect_trains(image, win_width, win_height, region, contours) ==
  IF IsEmpty(RoiOf(image, get_absolute_region(OrDefault(region, <<0, 0, 1000, 800>>),
                                              win_width, win_height)))
  THEN [value |-> None, raised |-> "cv2.error"]
  ELSE [value |-> TrainsOf(contours), raised |-> "none"]

\* np.uint16 arithmetic of the circle coordinates (line 107): cy - 2 wraps
Uint16(n) == n % 65536

\* line 111: color_roi = hsv[max(0, cy - 2):min(h, cy + 2), max(0, cx - 2):min(w, cx + 2)]
\* on the ROI roi, h and w being the region's nominal height and width
SampleWindow(roi, w, h, c) ==
  [w |-> SliceLen(roi.w, Max(0, Uint16(c.cx - 2)), Min(w, Uint16(c.cx + 2))),
   h |-> SliceLen(roi.h, Max(0, Uint16(c.cy - 2)), Min(h, Uint16(c.cy + 2)))]

\* a bucket rule that wants the radius to reach the unrounded 12 %
LineBucketUnrounded(roi, w, h, c) ==
  IF IsEmpty(SampleWindow(roi, w, h, c)) THEN "none"
  ELSE IF c.sat < 50 THEN "locked"
  ELSE IF 100 * c.radius >= 12 * w THEN "placed"
  ELSE "available"

\* lines 112-121: the bucket of one circle, "none" when its window has no
\* pixel; c.sat is the mean saturation of the window
LineBucket(roi, w, h, c) ==
  IF IsEmpty(SampleWindow(roi, w, h, c)) THEN "none"
  ELSE IF c.sat < 50 THEN "locked"
  ELSE IF c.radius >= IntOfProduct(120, w) THEN "placed"
  ELSE "available"

\* lines 102-123: the three counters after the loop over the circles
CountLines(roi, w, h, circles) ==
  [b \in {"available", "locked", "placed"} |->
     Cardinality({i \in DOMAIN circles : LineBucket(roi, w, h, circles[i]) = b})]

\* detect_available_lines (lines 84-123); circles is what the circle
\* transform finds in the ROI (none: the three counts stay 0)
detect_available_lines(image, win_width, win_height, region, circles) ==
  LET rect == get_absolute_region(OrDefault(region, <<350, 850, 300, 100>>),
                                  win_width, win_height)
      roi == RoiOf(image, rect)
  IN IF IsEmpty(roi)
     THEN [value |-> None, raised |-> "cv2.error"]
     ELSE [value |-> CountLines(roi, rect[3], rect[4], circles), raised |-> "none"]

\* round(x / 20): Python rounds a half to the even neighbour
RoundHalfEven(n, d) ==
  LET q == n \div d
      r == n % d
  IN IF 2 * r < d THEN q ELSE IF 2 * r > d THEN q + 1 ELSE IF q % 2 = 0 THEN q ELSE q + 1

\* line 311: color_key = tuple(map(lambda x: round(x / 20) * 20, color))
ColorKey(color) == [i \in DOMAIN color |-> RoundHalfEven(color[i], 20) * 20]

\* lines 291-293 and 305-307: a contour survives when the shorter side of its
\* minimum-area rectangle is in the line-width band of a region w pixels wide
LineKept(c, w) ==
  /\ ~(c.width > IntOfProduct(30, w))
  /\ IntOfProduct(5, w) <= c.width /\ c.width <= IntOfProduct(15, w)

\* a grouping that opens a new entry for every surviving contour
RECURSIVE GroupLinesApart(_, _, _)
GroupLinesApart(contours, w, acc) ==
  IF contours = <<>> THEN acc
  ELSE LET c == Head(contours)
       IN GroupLinesApart(Tail(contours), w,
            IF ~LineKept(c, w) THEN acc
            ELSE Append(acc, [color |-> ColorKey(c.color),
                              segments |-> <<[start |-> c.start, end |-> c.end,
                                              color |-> c.color]>>]))

\* lines 302-322: lines_by_color, as the entries of the dict in insertion order
RECURSIVE GroupLines(_, _, _)
GroupLines(contours, w, acc) ==
  IF contours = <<>> THEN acc
  ELSE LET c == Head(contours)
           key == ColorKey(c.color)
           seg == [start |-> c.start, end |-> c.end, color |-> c.color]
       IN GroupLines(Tail(contours), w,
            IF ~LineKept(c, w) THEN acc
            ELSE IF \E i \in DOMAIN acc : acc[i].color = key
                 THEN [i \in DOMAIN acc |->
                         IF acc[i].color = key
                         THEN [acc[i] EXCEPT !.segments = Append(@, seg)] ELSE acc[i]]
                 ELSE Append(acc, [color |-> key, segments |-> <<seg>>]))

\* lines 324-330: the entries whose list is not empty
Consolidated(entries) == SelectSeq(entries, LAMBDA e : e.segments # <<>>)

\* detect_placed_lines (lines 281-332); contours is what findContours returns
\* on the adaptive threshold of the ROI, each contour with the shorter side of
\* its minimum-area rectangle, its mean colour and two opposite corners
detect_placed_lines(image, win_width, win_height, region, contours) ==
  LET rect == get_absolute_region(OrDefault(region, <<0, 0, 1000, 800>>),
                                  win_width, win_height)
  IN IF IsEmpty(RoiOf(image, rect))
     THEN [value |-> None, raised |-> "cv2.error"]
     ELSE [value |-> Consolidated(GroupLines(contours, rect[3], <<>>)), raised |-> "none"]

\* station.get("bbox", (0, 0, 0, 0))
GetBbox(d) == IF HasKey(d, "bbox") THEN d["bbox"] ELSE <<0, 0, 0, 0>>

\* the sampling window of detect_station_demands (lines 412-419) for one
\* station; int(0.1 * bw) is bw \div 10 for a width that is not negative
DemandWindow(image, d) ==
  LET bbox == GetBbox(d)
      dx == bbox[3] \div 10
      dy == bbox[4] \div 10
  IN RoiOf(image, <<bbox[1] + bbox[3] - dx, Max(bbox[2] - dy, 0), dx * 2, dy * 2>>)

\* lines 432-442: the label of an icon contour by its vertex count
DemandShape(c) ==
  IF c.vertices >= 8 THEN "circle"
  ELSE IF c.vertices = 4 THEN "square"
  ELSE IF c.vertices = 3 THEN "triangle"
  ELSE IF c.vertices = 5 THEN "bell"
  ELSE IF c.vertices = 6 THEN "cross"
  ELSE "unidentified"

\* lines 425-443: the labels of the contours of one window with area 5..100
RECURSIVE StationDemands(_)
StationDemands(contours) ==
  IF contours = <<>> THEN <<>>
  ELSE (IF Head(contours).area < 5 \/ Head(contours).area > 100 THEN <<>>
        ELSE <<DemandShape(Head(contours))>>)
       \o StationDemands(Tail(contours))

\* a loop that stops at the first station whose window has no pixel
RECURSIVE DemandsUntilEmpty(_, _, _, _)
DemandsUntilEmpty(image, stations, icons, idx) ==
  IF idx > Len(stations) THEN <<>>
  ELSE IF IsEmpty(DemandWindow(image, stations[idx])) THEN <<>>
  ELSE <<[station_id |-> idx - 1, demands |-> StationDemands(icons[idx])]>>
       \o DemandsUntilEmpty(image, stations, icons, idx + 1)

detect_station_demands_aborting(image, stations, icons) ==
  DemandsUntilEmpty(image, stations, icons, 1)

\* lines 411-447 from station idx (1-based) on; icons[idx] is what
\* findContours returns in the window of station idx
RECURSIVE DemandsFrom(_, _, _, _)
DemandsFrom(image, stations, icons, idx) ==
  IF idx > Len(stations) THEN <<>>
  ELSE (IF IsEmpty(DemandWindow(image, stations[idx])) THEN <<>>
        ELSE <<[station_id |-> idx - 1, demands |-> StationDemands(icons[idx])]>>)
       \o DemandsFrom(image, stations, icons, idx + 1)

\* detect_station_demands (lines 404-448; detectors.py lines 330-375 differ
\* only in reading station["bbox"], which its own stations always have)
detect_station_demands(image, stations, icons) == DemandsFrom(image, stations, icons, 1)

\* ------------------------------------------------------ analyze_game_image
\* lines 463-471: the regions used when config_regions is None (written <<>>)
DefaultRegions ==
  [score_region |-> <<800, 0, 180, 100>>, train_region |-> <<100, 850, 200, 100>>,
   tunnel_region |-> <<700, 850, 200, 100>>, lines_region |-> <<350, 850, 300, 100>>,
   station_map_region |-> <<0, 0, 1000, 800>>, wagon_region |-> <<100, 750, 200, 100>>]

\* main.py lines 61-68: the regions main passes when no configuration file exists
MainRegions ==
  [score_region |-> <<838, 62, 45, 30>>, train_region |-> <<358, 916, 20, 30>>,
   tunnel_region |-> <<709, 916, 20, 30>>, lines_region |-> <<385, 913, 260, 60>>,
   station_map_region |-> <<10, 105, 980, 800>>, wagon_region |-> <<305, 916, 20, 30>>]

\* The first exception among the detector outcomes rs (in call order) is the
\* one that escapes: nothing in analyze_game_image catches it.
FirstRaised(rs) ==
  IF \A i \in DOMAIN rs : rs[i].raised = "none" THEN "none"
  ELSE rs[CHOOSE i \in DOMAIN rs : /\ rs[i].raised # "none"
                                   /\ \A j \in 1..(i - 1) : rs[j].raised = "none"].raised

\* Lines 472-482 once detect_stations (st) has run: the remaining detectors.
AnalysisAfterStations(st, image, win_width, win_height, cfg, f, score, trains, tunnels, lines) ==
  LET placed == detect_placed_lines(image, win_width, win_height, cfg.station_map_region,
                                    <<>>)
      tr == detect_trains(image, win_width, win_height, cfg.station_map_region, f.trains)
      wagons == detect_available_wagons(image, win_width, win_height, cfg.wagon_region,
                                        f.text.counter)
      exc == FirstRaised(<<st, placed, tr, wagons>>)
  IN [heap |-> st,
      raised |-> exc,
      analysis |->
        IF exc # "none" THEN None
        ELSE [score |-> score.value, available_trains |-> trains.value,
              available_tunnels |-> tunnels.value, available_lines |-> lines.value,
              stations |-> st.returned, placed_lines |-> placed.value,
              trains |-> tr.value, available_wagons |-> wagons.value,
              station_demands |->
                detect_station_demands(image, Contents(st.dicts, st.lists, st.returned),
                                       [i \in DOMAIN Contents(st.dicts, st.lists, st.returned) |-> <<>>])]]

\* analyze_game_image(image, win_width, win_height, config_regions) on heap
\* (ds, ls, prev); f holds what the vision library and the OCR engine find in
\* the frame.  The detectors run in the order of lines 473-481.
analyze_game_image(h, image, win_width, win_height, config_regions, f) ==
  LET cfg == IF config_regions = <<>> THEN DefaultRegions ELSE config_regions
      score == detect_score(image, win_width, win_height, cfg.score_region, f.text.score)
      trains == detect_available_trains(image, win_width, win_height, cfg.train_region,
                                        f.text.counter)
      tunnels == detect_available_tunnels(image, win_width, win_height, cfg.tunnel_region,
                                          f.text.counter)
      lines == detect_available_lines(image, win_width, win_height, cfg.lines_region, <<>>)
      exc == FirstRaised(<<score, trains, tunnels, lines>>)
  IN IF exc # "none"
     THEN [heap |-> Untracked(h, exc), raised |-> exc, analysis |-> None]
     ELSE AnalysisAfterStations(
            detect_stations(h, image, win_width, win_height, cfg.station_map_region,
                            f.stations),
            image, win_width, win_height, cfg, f, score, trains, tunnels, lines)

\* ------------------------------------------------- Spec: the frame pipeline
\* positions of the stations of a frame
FramePoints == {<<100, 100>>, <<105, 102>>}

FrameStations == UNION {[1..n -> FramePoints] : n \in 0..MaxDet}

\* contours of the train colour mask: none, or a train with a wagon
\* (40 x 16), a train without one (32 x 16) and a blob too square for a train
FrameTrains ==
  {<<>>,
   <<[bx |-> 10, by |-> 10, bw |-> 40, bh |-> 16, area |-> 600],
     [bx |-> 50, by |-> 10, bw |-> 32, bh |-> 16, area |-> 500],
     [bx |-> 90, by |-> 10, bw |-> 20, bh |-> 20, area |-> 400]>>}

\* OCR results: of the score region, and of the three counters' regions
FrameTexts == {[score |-> s, counter |-> <<"3", "\n">>] : s \in {<<>>, <<"1", "2", "8">>}}

\* the game window as main finds it: a usual one, a minimised one
FrameSizes == {<<800, 600>>, <<160, 28>>}

\* what one captured frame shows
Frames == [win : FrameSizes, text : FrameTexts, stations : FrameStations,
           trains : FrameTrains]

\* main.update_analysis, lines 264 and 280: the screenshot has the window's
\* size and is analysed with main's detection_regions
AnalyzeFrame ==
  \E f \in Frames :
    /\ \A g \in StoredAges("stations") : g < MaxAge
    /\ \E r \in {analyze_game_image(Heap, [w |-> f.win[1], h |-> f.win[2]],
                                    f.win[1], f.win[2], MainRegions, f)} :
         /\ SetHeap(r.heap)
         /\ raised' = r.raised
         /\ call' = [fn |-> "analyze_game_image", frame |-> f]
         /\ result' = r.analysis
         /\ UNCHANGED <<mainVars, collector>>

Next == AnalyzeFrame

Spec == Init /\ [][Next]_vars

\* ---------------------------------------------- SpecTracker: the tracker alone
\* track_objects called on the raw detections of a frame
CallTrackObjects ==
  \E ps \in PointLists : TrackCall([i \in DOMAIN ps |-> StationDict(ps[i])])

\* track_objects called, on an empty tracker, by a caller that has numbered
\* its detections (id = index, age = 1)
CallTrackObjectsNumbered ==
  /\ lists[previous_objects["stations"]] = <<>>
  /\ \E ps \in PointLists : TrackCall([i \in DOMAIN ps |-> NumberedDict(ps[i], i)])

NextTracker == CallTrackObjects \/ CallTrackObjectsNumbered

SpecTracker == Init /\ [][NextTracker]_vars

\* --------------------------------------- SpecRegion: get_absolute_region alone
\* fractions in thousandths, some below 0 and some above 1
Fractions == {-500, -1, 0, 45, 838, 1000, 1500}

\* window sizes: a usual one, a minimised window, an odd one
Sizes == {<<800, 600>>, <<160, 28>>, <<333, 7>>}

\* the call is drawn first, then made: raised = "pending" until it returns
InitRegion ==
  /\ InitHeap
  /\ InitMain
  /\ InitCollector
  /\ raised = "pending"
  /\ result = None
  /\ call \in {[fn |-> "get_absolute_region", region |-> r, win |-> win] :
                 r \in [1..4 -> Fractions], win \in Sizes}

CallGetAbsoluteRegion ==
  /\ raised = "pending"
  /\ call.fn = "get_absolute_region"
  /\ result' = get_absolute_region(call.region, call.win[1], call.win[2])
  /\ raised' = "none"
  /\ UNCHANGED <<trackerVars, mainVars, collector, call>>

SpecRegion == InitRegion /\ [][CallGetAbsoluteRegion]_vars

\* -------------------------------------- SpecReader: the numeric readers alone
\* what the OCR engine can return: nothing, blanks, digits, digits among others
Texts == {<<>>, <<" ", "\n">>, <<"5", "4", "3", "2", "\n">>, <<"1", "2", "8">>,
          <<"0", "7", "\n">>, <<"1", "O", "3">>}

\* the readers are called with the default region or with a configured one
ReaderRegions == {<<>>, <<838, 62, 45, 30>>, <<-100, 0, 180, 100>>, <<0, 0, 0, 100>>}

\* the tests' synthetic score image is 200 x 100 while the window is 800 x 600
Images == {[w |-> 200, h |-> 100], [w |-> 800, h |-> 600], [w |-> 160, h |-> 28]}

Readers == {"detect_score", "detect_available_trains", "detect_available_tunnels",
            "detect_available_wagons"}

InitReader ==
  /\ InitHeap
  /\ InitMain
  /\ InitCollector
  /\ raised = "pending"
  /\ result = None
  /\ call \in {[fn |-> fn, image |-> image, win |-> win, region |-> region, text |-> text] :
                 fn \in Readers, image \in Images, win \in Sizes,
                 region \in ReaderRegions, text \in Texts}

ReaderCall(fn, r) ==
  /\ raised = "pending"
  /\ call.fn = fn
  /\ result' = r.value
  /\ raised' = r.raised
  /\ UNCHANGED <<trackerVars, mainVars, collector, call>>

CallDetectScore ==
  ReaderCall("detect_score",
             detect_score(call.image, call.win[1], call.win[2], call.region, call.text))

CallDetectAvailableTrains ==
  ReaderCall("detect_available_trains",
             detect_available_trains(call.image, call.win[1], call.win[2], call.region,
                                     call.text))

CallDetectAvailableTunnels ==
  ReaderCall("detect_available_tunnels",
             detect_available_tunnels(call.image, call.win[1], call.win[2], call.region,
                                      call.text))

CallDetectAvailableWagons ==
  ReaderCall("detect_available_wagons",
             detect_available_wagons(call.image, call.win[1], call.win[2], call.region,
                                     call.text))

NextReader ==
  \/ CallDetectScore
  \/ CallDetectAvailableTrains
  \/ CallDetectAvailableTunnels
  \/ CallDetectAvailableWagons

SpecReader == InitReader /\ [][NextReader]_vars

\* ------------------------------------- SpecStation: one station's patch
\* A contour is known by what the vision library measures on it: its area, its
\* perimeter (arcLength), the number of vertices of its polygon approximation
\* and its bounding box bw x bh.
\* circularity = 4 * pi * area / perimeter^2 (0 for no perimeter), compared
\* with t twentieths (17 stands for 0.85) without rounding; pi is taken as
\* 355 / 113
CircAtLeast(c, t) ==
  IF c.perimeter > 0
  THEN 4 * 355 * c.area * 20 >= t * 113 * c.perimeter * c.perimeter
  ELSE 0 >= t

CircAtMost(c, t) ==
  IF c.perimeter > 0
  THEN 4 * 355 * c.area * 20 <= t * 113 * c.perimeter * c.perimeter
  ELSE 0 <= t

\* detectors_py.py lines 210-227: the decision on the largest contour
ClassifyContour(c) ==
  IF CircAtLeast(c, 17) /\ CircAtMost(c, 23) THEN "circle"
  ELSE IF CircAtLeast(c, 8) /\ CircAtMost(c, 14) /\ c.vertices = 3 THEN "triangle"
  ELSE IF CircAtLeast(c, 14) /\ CircAtMost(c, 18) /\ c.vertices = 4 THEN "square"
  ELSE IF c.vertices > 6 /\ ~CircAtMost(c, 16) THEN "circle"
  ELSE IF c.vertices = 3 THEN "triangle"
  ELSE IF c.vertices = 4 THEN "square"
  ELSE IF c.vertices <= 6 THEN "circle"
  ELSE "unknown"

\* the contour of the whole patch: what RETR_EXTERNAL finds when the ground
\* around a shape is the foreground
FrameContour(w, h) ==
  [area |-> (w - 1) * (h - 1), perimeter |-> 2 * (w - 1) + 2 * (h - 1), vertices |-> 4,
   bw |-> w, bh |-> h]

\* Lines 190-192 on a patch of w x h pixels that shows one shape clear of the
\* border: THRESH_BINARY_INV at 120 makes foreground of every pixel that is
\* NOT brighter than 120.  A dark shape on a light ground gives the shape's
\* contour; a light shape on a dark ground (fill = "light") makes the ground
\* the foreground, whose outer contour is the patch's frame; a patch that is
\* light all over (fill = "blank") gives no contour.
ContoursOfPatch(patch) ==
  CASE patch.fill = "dark" -> <<patch.contour>>
    [] patch.fill = "light" -> <<FrameContour(patch.w, patch.h)>>
    [] patch.fill = "blank" -> <<>>

\* max(contours, key=cv2.contourArea), the first of the largest
LargestContour(cs) ==
  cs[CHOOSE i \in DOMAIN cs : /\ \A j \in DOMAIN cs : cs[j].area <= cs[i].area
                              /\ \A j \in 1..(i - 1) : cs[j].area < cs[i].area]

\* classify_station_type (detectors_py.py lines 180-227)
classify_station_type(station_image) ==
  LET contours == ContoursOfPatch(station_image)
  IN IF contours = <<>> THEN "unknown" ELSE ClassifyContour(LargestContour(contours))

\* detectors.py lines 153-165: the shape detect_stations gives a contour
StationShape(c) ==
  IF c.vertices >= 8 THEN "circle"
  ELSE IF c.vertices = 4
       THEN (IF 9 * c.bh < 10 * c.bw /\ 10 * c.bw < 11 * c.bh THEN "square" ELSE "rectangle")
  ELSE IF c.vertices = 3 THEN "triangle"
  ELSE IF c.vertices = 5 THEN "pentagon"
  ELSE IF c.vertices = 6 THEN "cross"
  ELSE "unidentified"

\* count_passengers_at_station (detectors_py.py lines 229-234)
count_passengers_at_station(image, x, y, w, h) == 0

\* the shapes tests.py draws on a 100 x 100 patch (lines 46-52): a disc of
\* radius 30, the triangle (50,20) (20,80) (80,80), the square (20,20)-(80,80)
IdealCircle == [area |-> 2827, perimeter |-> 188, vertices |-> 8, bw |-> 61, bh |-> 61]
IdealTriangle == [area |-> 1800, perimeter |-> 194, vertices |-> 3, bw |-> 61, bh |-> 61]
IdealSquare == [area |-> 3600, perimeter |-> 240, vertices |-> 4, bw |-> 61, bh |-> 61]

\* other station outlines: polygons of 2 to 9 vertices, compact or thin, in
\* boxes whose width / height is 0.9, 1, 1.1 or 0.5
Outlines ==
  [area : {1800, 2700}, perimeter : {190, 260}, vertices : 2..9,
   bw : {54, 60, 66, 30}, bh : {60}]

Patches ==
  [w : {100}, h : {100}, fill : {"dark", "light"},
   contour : {IdealCircle, IdealTriangle, IdealSquare} \cup Outlines]
  \cup {[w |-> 100, h |-> 100, fill |-> "blank", contour |-> IdealCircle]}

\* tests.py lines 77-90: a 200 x 200 picture with n passenger icons around
\* the station box (70, 70, 60, 60)
PassengerPictures == [w : {200}, h : {200}, icons : 0..5]

InitStation ==
  /\ InitHeap
  /\ InitMain
  /\ InitCollector
  /\ raised = "pending"
  /\ result = None
  /\ \/ call \in {[fn |-> "classify_station_type", station_image |-> sp] : sp \in Patches}
     \/ call \in {[fn |-> "detect_stations.shape", contour |-> c] :
                    c \in {IdealCircle, IdealTriangle, IdealSquare} \cup Outlines}
     \/ call \in {[fn |-> "count_passengers_at_station", image |-> im, box |-> b] :
                    im \in PassengerPictures, b \in {<<70, 70, 60, 60>>, <<0, 0, 200, 200>>}}

CallClassifyStationType ==
  /\ raised = "pending"
  /\ call.fn = "classify_station_type"
  /\ result' = classify_station_type(call.station_image)
  /\ raised' = "none"
  /\ UNCHANGED <<trackerVars, mainVars, collector, call>>

CallStationShape ==
  /\ raised = "pending"
  /\ call.fn = "detect_stations.shape"
  /\ result' = StationShape(call.contour)
  /\ raised' = "none"
  /\ UNCHANGED <<trackerVars, mainVars, collector, call>>

CallCountPassengers ==
  /\ raised = "pending"
  /\ call.fn = "count_passengers_at_station"
  /\ result' = count_passengers_at_station(call.image, call.box[1], call.box[2],
                                           call.box[3], call.box[4])
  /\ raised' = "none"
  /\ UNCHANGED <<trackerVars, mainVars, collector, call>>

NextStation == CallClassifyStationType \/ CallStationShape \/ CallCountPassengers

SpecStation == InitStation /\ [][NextStation]_vars

\* ----------------------------- SpecLines: the two line detectors alone
\* thin contours of the map: the shorter side of the minimum-area rectangle
\* (2, 3 or 12 pixels), the mean colour (whole numbers; 10, 30 and 50 lie
\* half-way between two multiples of 20) and two opposite corners
LineContours ==
  {[width |-> wd, color |-> <<b, 200, 30>>, start |-> <<wd, b>>, end |-> <<wd + 40, b>>] :
     wd \in {2, 3, 12}, b \in {9, 10, 11, 30, 50}}

\* circles of the line indicator: centre, radius and mean saturation of the
\* sample window; a centre less than 2 pixels from the top or the left edge
\* makes cy - 2 or cx - 2 wrap
LineCircles == [cx : {1, 100}, cy : {0, 18}, radius : {7, 24, 25, 28, 29}, sat : {49, 50}]

\* the map region and the line-indicator region: the default one (None) and
\* the one main.py passes
MapRegions == {<<>>, <<10, 105, 980, 800>>}
LinesRegions == {<<>>, <<385, 913, 260, 60>>}

InitLines ==
  /\ InitHeap
  /\ InitMain
  /\ InitCollector
  /\ raised = "pending"
  /\ result = None
  /\ \/ call \in {[fn |-> "detect_placed_lines", region |-> r, contours |-> cs] :
                    r \in MapRegions,
                    cs \in UNION {[1..n -> LineContours] : n \in 0..MaxLines}}
     \/ call \in {[fn |-> "detect_available_lines", region |-> r, circles |-> cs] :
                    r \in LinesRegions,
                    cs \in UNION {[1..n -> LineCircles] : n \in 0..MaxCircles}}

\* the frame is a screenshot of an 800 x 600 window
CallDetectPlacedLines ==
  /\ raised = "pending"
  /\ call.fn = "detect_placed_lines"
  /\ \E r \in {detect_placed_lines([w |-> 800, h |-> 600], 800, 600, call.region,
                                   call.contours)} :
        result' = r.value /\ raised' = r.raised
  /\ UNCHANGED <<trackerVars, mainVars, collector, call>>

CallDetectAvailableLines ==
  /\ raised = "pending"
  /\ call.fn = "detect_available_lines"
  /\ \E r \in {detect_available_lines([w |-> 800, h |-> 600], 800, 600, call.region,
                                      call.circles)} :
        result' = r.value /\ raised' = r.raised
  /\ UNCHANGED <<trackerVars, mainVars, collector, call>>

NextLines == CallDetectPlacedLines \/ CallDetectAvailableLines

SpecLines == InitLines /\ [][NextLines]_vars

\* ------------------------------ SpecDemands: detect_station_demands alone
\* stations as the two pipelines supply them: with a bounding box (one with a
\* window of 8 x 8 pixels, one too small for a window, one whose window lies
\* right of the frame, one at the top edge) and, from the tracking pipeline,
\* without one
DemandStations ==
  {[position |-> <<120, 120>>, bbox |-> <<100, 100, 40, 40>>],
   [position |-> <<104, 104>>, bbox |-> <<100, 100, 8, 8>>],
   [position |-> <<805, 25>>, bbox |-> <<790, 10, 30, 30>>],
   [position |-> <<120, 22>>, bbox |-> <<100, 2, 40, 40>>],
   [x |-> 100, y |-> 100, id |-> 0, age |-> 1]}

\* icon contours of a window: too small, of 3 to 8 vertices, too large
Icons ==
  {[area |-> 4, vertices |-> 3], [area |-> 101, vertices |-> 4]}
  \cup [area : {50}, vertices : 3..8]

IconLists ==
  {<<>>} \cup {<<c>> : c \in Icons}
  \cup {<<[area |-> 50, vertices |-> 8], [area |-> 4, vertices |-> 3],
          [area |-> 50, vertices |-> 5]>>}

InitDemands ==
  /\ InitHeap
  /\ InitMain
  /\ InitCollector
  /\ raised = "pending"
  /\ result = None
  /\ call \in {[fn |-> "detect_station_demands", stations |-> ss, icons |-> ic] :
                 ss \in UNION {[1..n -> DemandStations] : n \in 0..MaxDet}, ic \in IconLists}

\* every station's window shows the icons of the call
CallDetectStationDemands ==
  /\ raised = "pending"
  /\ call.fn = "detect_station_demands"
  /\ result' = detect_station_demands([w |-> 800, h |-> 600], call.stations,
                                      [i \in DOMAIN call.stations |-> call.icons])
  /\ raised' = "none"
  /\ UNCHANGED <<trackerVars, mainVars, collector, call>>

SpecDemands == InitDemands /\ [][CallDetectStationDemands]_vars

\* ------------------------------------------------------------------ main.py
\* main.py line 34
MAX_CONSECUTIVE_ERRORS == 5

\* scores analyze_game_image may report (detect_score: any integer >= 0);
\* the steps 100, 101 and 201 put rises of 0, 1, 100, 101 and falls in reach
Scores == {0, 100, 101, 201}

\* validate_data without the upper limit on the rise
validate_data_any_rise(data, last) ==
  IF last # NoneData /\ "score" \in DOMAIN data /\ "score" \in DOMAIN last
  THEN LET score_diff == data.score - last.score IN ~(score_diff < 0)
  ELSE TRUE

\* main.py validate_data, lines 154-163; last is the global last_valid_data
validate_data(data, last) ==
  IF last # NoneData /\ "score" \in DOMAIN data /\ "score" \in DOMAIN last
  THEN LET score_diff == data.score - last.score
       IN  ~(score_diff < 0 \/ score_diff > 100)
  ELSE TRUE

\* what one tick may meet: find_game_window finds the window or not (257-258),
\* capture_game_window returns an image or None (264-265), analyze_game_image
\* raises or returns data (280), update_ui_with_data raises or not (274, 283, 287)
Ticks ==
  [window : BOOLEAN, capture : BOOLEAN, analysis : {"raise"}, score : {0},
   ui : {"ok", "raise"}]
  \cup
  [window : BOOLEAN, capture : BOOLEAN, analysis : {"data"}, score : Scores,
   ui : {"ok", "raise"}]

\* main.py schedule_update, lines 147-151: one more callback on the timer
schedule_update(m) == [m EXCEPT !.pending = @ + 1]

\* the except clause of update_analysis, lines 288-294
ExceptClause(m) ==
  LET n == m.error_count + 1
  IN  IF n >= MAX_CONSECUTIVE_ERRORS
      THEN [m EXCEPT !.error_count = 0, !.shown = "critical"]
      ELSE [m EXCEPT !.error_count = n]

\* update_analysis lines 280-287 inside the try: analyze_game_image raises on
\* a None image (detect_score subscripts it) or when the tick says so
AnalyzeAndShow(m0, image, tick) ==
  LET m == [m0 EXCEPT !.invoked = TRUE]
  IN  IF image = None \/ tick.analysis = "raise" THEN ExceptClause(m)
      ELSE LET data == [score |-> tick.score]
           IN  IF validate_data(data, m.last_valid_data)
               THEN LET m1 == [m EXCEPT !.last_valid_data = data]
                    IN  IF tick.ui = "raise" THEN ExceptClause(m1) ELSE m1
               ELSE IF m.last_valid_data # NoneData /\ tick.ui = "raise"
                    THEN ExceptClause(m) ELSE m

\* update_analysis lines 265-276 with the return at line 276 left out: the
\* tick goes on to line 280 after it has scheduled the next one
CaptureFailedNoReturn(m, tick) ==
  LET m1 == [m EXCEPT !.error_count = @ + 1]
  IN  IF m1.error_count >= MAX_CONSECUTIVE_ERRORS
      THEN schedule_update(AnalyzeAndShow([m1 EXCEPT !.shown = "recalibration",
                                                     !.error_count = 0], None, tick))
      ELSE IF m1.last_valid_data # NoneData /\ tick.ui = "raise"
           THEN schedule_update(ExceptClause(m1))
           ELSE schedule_update(AnalyzeAndShow(schedule_update(m1), None, tick))

\* update_analysis lines 265-276 and what follows them: the capture returned
\* None.  At five the prompt is shown, the count reset and control goes on to
\* line 280 with image None; below five the tick ends at line 276, or in the
\* except clause and line 296 when update_ui_with_data raised.
CaptureFailed(m, tick) ==
  LET m1 == [m EXCEPT !.error_count = @ + 1]
  IN  IF m1.error_count >= MAX_CONSECUTIVE_ERRORS
      THEN schedule_update(AnalyzeAndShow([m1 EXCEPT !.shown = "recalibration",
                                                     !.error_count = 0], None, tick))
      ELSE IF m1.last_valid_data # NoneData /\ tick.ui = "raise"
           THEN schedule_update(ExceptClause(m1))
           ELSE schedule_update(m1)

\* main.py update_analysis, lines 246-296, on the globals m
update_analysis(m, running, tick) ==
  IF ~running THEN schedule_update(m)
  ELSE IF ~tick.window THEN schedule_update(m)
  ELSE IF ~tick.capture THEN CaptureFailed(m, tick)
  ELSE schedule_update(AnalyzeAndShow([m EXCEPT !.error_count = 0], 1, tick))

\* a tick that ran and failed: the capture returned None, or the analysis or
\* the update of the UI raised
TickFailed(running, tick) ==
  /\ running
  /\ tick.window
  /\ ~tick.capture \/ tick.analysis = "raise" \/ tick.ui = "raise"

\* a tick that ran to the end of the try without an exception
TickSucceeded(running, tick) ==
  /\ running
  /\ tick.window
  /\ tick.capture /\ tick.analysis = "data" /\ tick.ui = "ok"

\* the timer fires one pending update_analysis; streak counts the failed ticks in a row,
\* anew after five
UpdateAnalysis ==
  /\ pending > 0
  /\ pending <= MaxPending
  /\ \E tick \in Ticks :
    \E m \in {update_analysis([error_count |-> error_count,
                               last_valid_data |-> last_valid_data,
                               shown |-> "none", invoked |-> FALSE,
                               pending |-> pending - 1], analysis_running, tick)} :
      /\ error_count' = m.error_count
      /\ pending' = m.pending
      /\ invoked' = m.invoked
      /\ last_valid_data' = m.last_valid_data
      /\ shown' = m.shown
      /\ streak' = IF TickFailed(analysis_running, tick)
                   THEN (IF streak >= MAX_CONSECUTIVE_ERRORS THEN 1 ELSE streak + 1)
                   ELSE IF TickSucceeded(analysis_running, tick) THEN 0
                   ELSE streak
      /\ call' = [fn |-> "update_analysis", window |-> tick.window,
                  capture |-> tick.capture, analysis |-> tick.analysis,
                  score |-> tick.score, ui |-> tick.ui]
      /\ UNCHANGED <<trackerVars, analysis_running, raised, result, collector>>

\* main.py toggle_analysis, lines 299-308 (shift+r)
ToggleAnalysis ==
  /\ analysis_running' = ~analysis_running
  /\ call' = [fn |-> "toggle_analysis"]
  /\ UNCHANGED <<trackerVars, error_count, last_valid_data, shown, streak,
                 pending, invoked, raised, result, collector>>

NextMain == UpdateAnalysis \/ ToggleAnalysis

SpecMain == Init /\ [][NextMain]_vars

\* ------------------------------------------------- manual_data_collector.py
\* canvas positions are <<x, y>>; a station is kept as its position (its shape
\* and its demands ride along untouched), a line as the list of the positions
\* it connects (number and colour ride along untouched)
Abs(n) == IF n < 0 THEN -n ELSE n

\* seq without its element at index i (list.pop(i))
RemoveAt(seq, i) == [j \in 1..(Len(seq) - 1) |-> IF j < i THEN seq[j] ELSE seq[j + 1]]

\* list.index(v): the first index of v (1-based)
FirstIndex(seq, v) == CHOOSE i \in DOMAIN seq : seq[i] = v /\ \A j \in 1..(i - 1) : seq[j] # v

\* lines 729-733
ccw(A, B, C) == (C[2] - A[2]) * (B[1] - A[1]) > (B[2] - A[2]) * (C[1] - A[1])

line_intersect(p1, p2, p3, p4) ==
  /\ ccw(p1, p3, p4) # ccw(p2, p3, p4)
  /\ ccw(p1, p2, p3) # ccw(p1, p2, p4)

\* lines 635-642: the obstacle segments the segment start-end crosses
count_tunnel_required(c, start, end) ==
  Cardinality({oi \in {<<o, i>> : o \in DOMAIN c.obstacles, i \in 1..3} :
                 /\ oi[2] < Len(c.obstacles[oi[1]])
                 /\ line_intersect(start, end, c.obstacles[oi[1]][oi[2]],
                                   c.obstacles[oi[1]][oi[2] + 1])})

\* lines 722-727: whether it crosses any
check_tunnel_required(c, start, end) ==
  \E o \in DOMAIN c.obstacles : \E i \in 1..(Len(c.obstacles[o]) - 1) :
     line_intersect(start, end, c.obstacles[o][i], c.obstacles[o][i + 1])

\* lines 735-746, on whole numbers: u = dot / mag^2 lies in [0, 1] and the
\* distance |cross| / mag is below the threshold of 10
point_near_line(p, a, b) ==
  LET mag2 == (b[1] - a[1]) * (b[1] - a[1]) + (b[2] - a[2]) * (b[2] - a[2])
      dot == (p[1] - a[1]) * (b[1] - a[1]) + (p[2] - a[2]) * (b[2] - a[2])
      cross == (p[1] - a[1]) * (b[2] - a[2]) - (p[2] - a[2]) * (b[1] - a[1])
  IN  /\ mag2 > 0
      /\ dot >= 0 /\ dot <= mag2
      /\ cross * cross < 100 * mag2

\* lines 713-717: the index of the first station within 10 of p, None if none
find_nearest_station(c, p) ==
  IF \E k \in DOMAIN c.stations :
        Abs(c.stations[k][1] - p[1]) < 10 /\ Abs(c.stations[k][2] - p[2]) < 10
  THEN CHOOSE k \in DOMAIN c.stations :
         /\ Abs(c.stations[k][1] - p[1]) < 10 /\ Abs(c.stations[k][2] - p[2]) < 10
         /\ \A q \in 1..(k - 1) : ~(/\ Abs(c.stations[q][1] - p[1]) < 10
                                    /\ Abs(c.stations[q][2] - p[2]) < 10)
  ELSE None

\* math.cos(math.atan2(dy, dx)) for a direction along the x axis, the only
\* one the stations of this model give (atan2(0, 0) is 0)
CosOf(dx) == IF dx < 0 THEN -1 ELSE 1

\* lines 436-452: the point get_line_endpoint_at tests for one end of a line
\* of two stations or more, 15 along the x axis from the end station
ExtendedEndpoint(stations, is_start) ==
  IF is_start
  THEN <<stations[1][1] - 15 * CosOf(stations[1][1] - stations[2][1]), stations[1][2]>>
  ELSE LET n == Len(stations)
       IN  <<stations[n][1] + 15 * CosOf(stations[n][1] - stations[n - 1][1]), stations[n][2]>>

\* math.hypot(x - ext_x, y - ext_y) < threshold (line 455)
HitsEndpoint(p, stations, is_start) ==
  /\ Len(stations) > 1
  /\ LET e == ExtendedEndpoint(stations, is_start)
     IN  (p[1] - e[1]) * (p[1] - e[1]) + (p[2] - e[2]) * (p[2] - e[2]) < 15 * 15

\* lines 428-457: <<index, is_start>> of the first end hit, the start of a
\* line before its end; <<None, FALSE>> stands for (None, None)
get_line_endpoint_at(c, p) ==
  LET hits == {i \in DOMAIN c.lines : HitsEndpoint(p, c.lines[i].stations, TRUE)
                                      \/ HitsEndpoint(p, c.lines[i].stations, FALSE)}
  IN  IF hits = {} THEN <<None, FALSE>>
      ELSE LET i == CHOOSE h \in hits : \A g \in hits : h <= g
           IN  <<i, HitsEndpoint(p, c.lines[i].stations, TRUE)>>

\* lines 238-266: restart_game and reset_resources
restart_game(c) ==
  [c EXCEPT !.game_active = TRUE, !.recording = FALSE,
            !.stations = <<>>, !.obstacles = <<>>, !.lines = <<>>,
            !.tunnels = 3, !.line_available = 3, !.line_placed = 0]

\* lines 227-236
toggle_game(c) ==
  IF c.game_active
  THEN [c EXCEPT !.game_active = FALSE, !.recording = FALSE, !.overlay = "withdrawn"]
  ELSE restart_game(c)

\* toggle_recording without the test of game_active
toggle_recording_unguarded(c) ==
  IF ~c.recording
  THEN [c EXCEPT !.recording = TRUE, !.overlay = "shown", !.canvas = TRUE]
  ELSE [c EXCEPT !.recording = FALSE, !.overlay = "withdrawn"]

\* lines 300-311; setup_overlay creates the canvas the first time (313-327)
toggle_recording(c) ==
  IF ~c.game_active THEN c
  ELSE IF ~c.recording
       THEN [c EXCEPT !.recording = TRUE, !.overlay = "shown", !.canvas = TRUE]
       ELSE [c EXCEPT !.recording = FALSE, !.overlay = "withdrawn"]

\* lines 332-341
start_drawing(c, p) ==
  IF ~c.recording THEN c
  ELSE [c EXCEPT !.drawing = TRUE, !.current_obstacle = <<p>>,
                 !.checks = Append(@, p)]

\* lines 343-357, the callback that start_drawing scheduled for position p
check_if_station(c, p) ==
  IF c.drawing /\ Len(c.current_obstacle) = 1
  THEN [c EXCEPT !.stations = Append(@, p), !.current_obstacle = <<>>,
                 !.drawing = FALSE]
  ELSE c

\* lines 388-395
draw(c, p) ==
  IF ~c.recording \/ ~c.drawing THEN c
  ELSE [c EXCEPT !.current_obstacle = Append(@, p)]

\* lines 397-402.  The points stay in current_obstacle, where nothing reads
\* them while drawing is false (lines 333-336, 344, 389, 398): they are
\* dropped here.
stop_drawing(c) ==
  IF ~c.recording \/ ~c.drawing THEN c
  ELSE [c EXCEPT !.obstacles = IF Len(c.current_obstacle) > 1
                               THEN Append(@, c.current_obstacle) ELSE @,
                 !.current_obstacle = <<>>,
                 !.drawing = FALSE]

\* a new line as start_line builds it (lines 485-489); charged and intact are
\* history: the tunnels stop_line took for its segments, and whether no
\* station removal has changed it
NewLine(station_coords) == [stations |-> <<station_coords>>, charged |-> 0, intact |-> TRUE]

\* lines 453-498
start_line(c, p) ==
  LET ep == get_line_endpoint_at(c, p)
      k == find_nearest_station(c, p)
  IN  IF ~c.recording THEN c
      ELSE IF ep[1] # None
      THEN [c EXCEPT !.current_line_index = ep[1], !.drawing_line = TRUE,
                     !.extending_from_start = ep[2]]
      ELSE IF k = None THEN c
      ELSE LET station_coords == c.stations[k]
               ends == {i \in DOMAIN c.lines :
                          c.lines[i].stations[Len(c.lines[i].stations)] = station_coords}
           IN  IF ends # {}
               THEN [c EXCEPT !.extending_from_start = FALSE,
                              !.current_line_index = CHOOSE i \in ends : \A g \in ends : i <= g,
                              !.drawing_line = TRUE]
               ELSE IF c.line_available > 0
               THEN [c EXCEPT !.extending_from_start = FALSE,
                              !.lines = Append(@, NewLine(station_coords)),
                              !.current_line_index = Len(c.lines) + 1,
                              !.line_available = @ - 1,
                              !.line_placed = @ + 1,
                              !.drawing_line = TRUE]
               ELSE [c EXCEPT !.extending_from_start = FALSE]

\* whether stop_line raises IndexError at line 602: the line that was being
\* drawn is gone (self.current_data['lines'][self.current_line_index])
StopLineRaises(c, p) ==
  /\ c.drawing_line /\ c.current_line_index # None
  /\ find_nearest_station(c, p) # None
  /\ c.current_line_index > Len(c.lines)

\* lines 591-632
stop_line(c, p) ==
  LET k == find_nearest_station(c, p)
      done == [c EXCEPT !.drawing_line = FALSE, !.current_line_index = None]
  IN  IF ~c.drawing_line \/ c.current_line_index = None THEN c
      ELSE IF k = None THEN done
      ELSE IF c.current_line_index > Len(c.lines) THEN c
      ELSE LET end_coords == c.stations[k]
               line == c.lines[c.current_line_index]
               start_coords == IF c.extending_from_start THEN line.stations[1]
                               ELSE line.stations[Len(line.stations)]
               tunnel_count == count_tunnel_required(c, start_coords, end_coords)
           IN  IF tunnel_count > 0 /\ c.tunnels < tunnel_count THEN done
               ELSE [done EXCEPT
                       !.tunnels = @ - tunnel_count,
                       !.lines[c.current_line_index] =
                          [@ EXCEPT !.stations = IF c.extending_from_start
                                                 THEN <<end_coords>> \o @
                                                 ELSE Append(@, end_coords),
                                    !.charged = @ + tunnel_count]]

\* lines 657-692 from line i (1-based) on
RECURSIVE RemovalLoop(_, _, _)
RemovalLoop(c, station_pos, i) ==
  IF i > Len(c.lines) THEN c
  ELSE LET line == c.lines[i]
       IN  IF station_pos \notin Range(line.stations)
           THEN RemovalLoop(c, station_pos, i + 1)
           ELSE LET idx == FirstIndex(line.stations, station_pos)
                    refund == IF idx = 1 \/ idx = Len(line.stations) THEN 0
                              ELSE count_tunnel_required(c, line.stations[idx - 1],
                                                         line.stations[idx + 1])
                    rest == RemoveAt(line.stations, idx)
                    c1 == [c EXCEPT !.tunnels = @ + refund,
                                    !.lines[i] = [@ EXCEPT !.stations = rest,
                                                           !.intact = FALSE]]
                IN  IF Len(rest) < 2
                    THEN RemovalLoop([c1 EXCEPT !.lines = RemoveAt(@, i),
                                                !.line_available = @ + 1,
                                                !.line_placed = @ - 1],
                                     station_pos, i)
                    ELSE RemovalLoop(c1, station_pos, i + 1)

handle_station_removal(c, station_index) ==
  RemovalLoop(c, c.stations[station_index], 1)

\* lines 645-655 (the definition of lines 401-419 is replaced by this one)
remove_element(c, p) ==
  LET k == find_nearest_station(c, p)
  IN  IF k = None THEN c
      ELSE [handle_station_removal(c, k) EXCEPT !.stations = RemoveAt(@, k)]

\* the first line with a segment near p, None if none (lines 696-699)
LineNear(c, p) ==
  LET near == {i \in DOMAIN c.lines :
                 \E j \in 1..(Len(c.lines[i].stations) - 1) :
                    point_near_line(p, c.lines[i].stations[j], c.lines[i].stations[j + 1])}
  IN  IF near = {} THEN None ELSE CHOOSE i \in near : \A g \in near : i <= g

\* lines 700-703: one tunnel back for every segment that crosses an obstacle
TunnelsBack(c, pts) ==
  Cardinality({k \in 1..(Len(pts) - 1) : check_tunnel_required(c, pts[k], pts[k + 1])})

\* lines 694-711
remove_line(c, p) ==
  LET i == LineNear(c, p)
  IN  IF i = None THEN c
      ELSE [c EXCEPT !.tunnels = @ + TunnelsBack(c, c.lines[i].stations),
                     !.lines = RemoveAt(@, i),
                     !.line_available = @ + 1,
                     !.line_placed = @ - 1]

\* update_line_resources without the limit of seven
update_line_resources_unlimited(c, spin) == [c EXCEPT !.line_available = spin]

\* lines 808-818; spin is what the spinbox shows when its command runs
update_line_resources(c, spin) ==
  [c EXCEPT !.line_available = IF spin + c.line_placed > 7 THEN 7 - c.line_placed
                               ELSE spin]

\* ---------------------------------------------- SpecCollector: the collector
\* where stations are put: two places on one row, 40 apart
StationPlaces == {<<0, 20>>, <<40, 20>>}

\* the path the mouse follows when an obstacle is drawn: a V across the row
\* between the two places, which the segment between them crosses twice
ObstaclePath == <<<<10, 10>>, <<20, 30>>, <<30, 10>>>>

\* where the right button goes down or up and where a double click lands: on
\* a station (an end of the segments that meet there), or at (15, 20), off
\* every station, on the segment between the two places and where
\* get_line_endpoint_at looks for the start of a line between them
Clicks == StationPlaces \cup {<<15, 20>>}

\* values of the line_available spinbox
SpinValues == {0, 7}

\* the canvas receives mouse events once it exists and the overlay is shown
CanvasShown == collector.canvas /\ collector.overlay = "shown"

\* the sizes within which the collector is followed
Bounded(c) ==
  /\ Len(c.stations) <= MaxStops
  /\ Len(c.obstacles) <= MaxObstacles
  /\ Len(c.lines) <= MaxPlaced
  /\ \A i \in DOMAIN c.lines : Len(c.lines[i].stations) <= MaxStops
  /\ c.tunnels <= MaxTunnels
  /\ Len(c.checks) <= 1

\* no left-button gesture is under way and no check_if_station is waiting
LeftButtonIdle == ~collector.drawing /\ collector.checks = <<>>

\* an event: handler fn leaves the collector as c; args keeps the position of
\* a double click.  A handler that returns with nothing changed is a
\* stuttering step.
Event(fn, args, c) ==
  /\ Bounded(c)
  /\ c # collector
  /\ collector' = c
  /\ call' = [fn |-> fn, args |-> args]
  /\ raised' = "none"
  /\ UNCHANGED <<trackerVars, mainVars, result>>

\* shift+G (lines 99-101)
ToggleGame ==
  \E c \in {toggle_game(collector)} : Event("toggle_game", <<>>, c)

\* the Restart Game button (line 133)
RestartGame ==
  \E c \in {restart_game(collector)} : Event("restart_game", <<>>, c)

\* shift+R, scheduled only while the game is active (lines 103-105): the
\* callback runs later, whatever the game has become by then
ToggleRecording ==
  \E c \in {toggle_recording(collector)} : Event("toggle_recording", <<>>, c)

\* <Button-1>, on a place without a station or at the head of the obstacle
\* path.  The board is drawn while no line is laid, one gesture at a time.
StartDrawing ==
  /\ CanvasShown
  /\ LeftButtonIdle
  /\ collector.lines = <<>> /\ ~collector.drawing_line
  /\ \E p \in StationPlaces \cup {ObstaclePath[1]} :
       /\ find_nearest_station(collector, p) = None
       /\ Event("start_drawing", <<>>, start_drawing(collector, p))

\* the timer fires the oldest check_if_station; the gesture that draws an
\* obstacle has moved on or ended by then
CheckIfStation ==
  /\ collector.checks # <<>>
  /\ \/ Head(collector.checks) \in StationPlaces
     \/ ~(collector.drawing /\ Len(collector.current_obstacle) = 1)
  /\ Event("check_if_station", <<>>,
           check_if_station([collector EXCEPT !.checks = Tail(@)], Head(collector.checks)))

\* <B1-Motion>: the mouse reaches the next point of the path
Draw ==
  /\ CanvasShown
  /\ Len(collector.current_obstacle) \in 1..(Len(ObstaclePath) - 1)
  /\ collector.current_obstacle[1] = ObstaclePath[1]
  /\ Event("draw", <<>>,
           draw(collector, ObstaclePath[Len(collector.current_obstacle) + 1]))

\* <ButtonRelease-1>
StopDrawing == CanvasShown /\ Event("stop_drawing", <<>>, stop_drawing(collector))

\* <Double-Button-1>
RemoveElement ==
  /\ CanvasShown
  /\ LeftButtonIdle
  /\ \E p \in Clicks : Event("remove_element", <<p>>, remove_element(collector, p))

\* <Button-3>
StartLine ==
  /\ CanvasShown
  /\ LeftButtonIdle
  /\ \E p \in Clicks : Event("start_line", <<>>, start_line(collector, p))

\* <ButtonRelease-3>; an IndexError ends the handler where it is raised
StopLine ==
  /\ CanvasShown
  /\ LeftButtonIdle
  /\ \E p \in Clicks :
       /\ Bounded(stop_line(collector, p))
       /\ stop_line(collector, p) # collector \/ StopLineRaises(collector, p)
       /\ collector' = stop_line(collector, p)
       /\ call' = [fn |-> "stop_line", args |-> <<>>]
       /\ raised' = IF StopLineRaises(collector, p) THEN "IndexError" ELSE "none"
       /\ UNCHANGED <<trackerVars, mainVars, result>>

\* <Double-Button-3>
RemoveLine ==
  /\ CanvasShown
  /\ LeftButtonIdle
  /\ \E p \in Clicks : Event("remove_line", <<p>>, remove_line(collector, p))

\* an arrow of the Line Available spinbox (lines 206-208)
UpdateLineResources ==
  \E spin \in SpinValues :
     \E c \in {update_line_resources(collector, spin)} :
        Event("update_line_resources", <<>>, c)

NextCollector ==
  \/ ToggleGame \/ RestartGame \/ ToggleRecording
  \/ StartDrawing \/ CheckIfStation \/ Draw \/ StopDrawing
  \/ RemoveElement \/ StartLine \/ StopLine \/ RemoveLine
  \/ UpdateLineResources

SpecCollector == Init /\ [][NextCollector]_vars

\* ================================================================== claims
\* what the tracker holds for the stations, what its last return value held
\* and what its last argument holds
Stored == Contents(dicts, lists, previous_objects["stations"])
Returned == Contents(dicts, lists, returned)
Tracked == call.fn = "track_objects"

Near(p, q) == Dist2(p, q) < 900

\* the index of the detection of seq nearest to p, the first one on a tie
Nearest(p, seq) ==
  CHOOSE m \in DOMAIN seq : /\ \A j \in DOMAIN seq : Dist2(p, seq[m]) <= Dist2(p, seq[j])
                            /\ \A j \in 1..(m - 1) : Dist2(p, seq[j]) > Dist2(p, seq[m])

HasIds(seq) == \A i \in DOMAIN seq : HasKey(seq[i], "id")

DistinctIds(seq) ==
  \A i, j \in DOMAIN seq :
     (i # j /\ HasKey(seq[i], "id") /\ HasKey(seq[j], "id")) => seq[i]["id"] # seq[j]["id"]

\* C1: after any sequence of track_objects calls, every object of the returned
\* list and of the stored previous-frame state has an id, and no two objects
\* present together (matched, new or in their grace period) share an id.
C1_EveryObjectHasUniqueId ==
  /\ HasIds(Stored) /\ DistinctIds(Stored)
  /\ (Tracked /\ raised = "none") => (HasIds(Returned) /\ DistinctIds(Returned))

\* C2: in any call of track_objects, a new detection with no previous object
\* within 30 units is assigned an id never issued before in that category.
C2_NewDetectionGetsFreshId ==
  [][Tracked' =>
       \A i \in DOMAIN call'.new_objects :
          (/\ ~HasKey(call'.new_objects[i], "id")
           /\ \A k \in DOMAIN Stored : ~Near(Stored[k], call'.new_objects[i]))
          => /\ raised' = "none"
             /\ HasKey(dicts'[lists'[new_objects'][i]], "id")
             /\ dicts'[lists'[new_objects'][i]]["id"] \notin issued]_vars

\* C3: when a previously tracked object's nearest new detection lies at a
\* distance below 30 and is unclaimed (here: no earlier stored object has it as
\* its nearest), track_objects returns an object with the detection's fields,
\* the previous object's id and its age plus one; so an object first seen at
\* (100,100) and then detected at (105,102) comes back with its id and age 2.
C3_MatchKeepsIdAndAges ==
  [][(Tracked' /\ call'.new_objects # <<>>) =>
       \A k \in DOMAIN Stored :
          LET m == Nearest(Stored[k], call'.new_objects)
          IN (/\ Near(Stored[k], call'.new_objects[m])
              /\ \A q \in 1..(k - 1) : Nearest(Stored[q], call'.new_objects) # m)
             => /\ raised' = "none"
                /\ HasKey(Stored[k], "id") /\ HasKey(Stored[k], "age")
                /\ \E j \in DOMAIN Returned' :
                      Returned'[j] = SetKey(SetKey(call'.new_objects[m], "id", Stored[k]["id"]),
                                            "age", Stored[k]["age"] + 1)]_vars

\* C4: when track_objects is called with no prior state (first call, or stored
\* state empty), every incoming detection becomes a tracked object with id equal
\* to its index in the input list and age 1, and that list is stored and returned.
C4_FirstCallNumbersDetections ==
  [][(Tracked' /\ Stored = <<>>) =>
       /\ raised' = "none"
       /\ Returned' = [i \in DOMAIN call'.new_objects |->
                         SetKey(SetKey(call'.new_objects[i], "id", i - 1), "age", 1)]
       /\ Stored' = Returned']_vars

\* C5: a tracked object that has reached age 5 and is then absent from the
\* detections of the next two calls (a call with no detection at all included)
\* is returned with missing = true by the first of them and is gone from the
\* output and from the stored state in the second: every object flagged missing
\* in an output was stored unflagged just before, and the stored state never
\* holds a flagged object.
C5_OneCallOfGrace ==
  [][Tracked' =>
       /\ \A k \in DOMAIN Stored :
             (/\ HasKey(Stored[k], "age") /\ Stored[k]["age"] >= 5
              /\ \A i \in DOMAIN call'.new_objects : ~Near(Stored[k], call'.new_objects[i]))
             => /\ raised' = "none"
                /\ \E j \in DOMAIN Returned' : Returned'[j] = SetKey(Stored[k], "missing", TRUE)
                /\ \A j \in DOMAIN Stored' : Stored'[j]["id"] # Stored[k]["id"]
       /\ raised' = "none" =>
             \A j \in DOMAIN Returned' :
                GetMissing(Returned'[j]) =>
                   \E k \in DOMAIN Stored : /\ ~GetMissing(Stored[k])
                                            /\ Returned'[j] = SetKey(Stored[k], "missing", TRUE)
       /\ \A j \in DOMAIN Stored' : ~GetMissing(Stored'[j])]_vars

\* C6: a snapshot returned by one call is not changed afterwards: a later
\* track_objects call modifies no object that an earlier call returned (no id,
\* age or missing field added or changed), and the returned list does not alias
\* the tracker's stored state.
C6_ReturnedSnapshotIsNotTouched ==
  /\ prior = {}
  /\ returned # None => returned # previous_objects["stations"]

\* C7: the trains list of the snapshot returned by analyze_game_image is
\* tracked like the stations list: every detected train went through the
\* tracker's "trains" category and carries an id and an age.
C7_TrainsAreTracked ==
  (call.fn = "analyze_game_image" /\ raised = "none") =>
     /\ \A i \in DOMAIN result.trains :
           HasKey(result.trains[i], "id") /\ HasKey(result.trains[i], "age")
     /\ Len(lists[previous_objects["trains"]]) = Len(result.trains)

\* the frame of the last call leaves the score region without a pixel
ScoreRoiIsEmpty ==
  IsEmpty(RoiOf([w |-> call.frame.win[1], h |-> call.frame.win[2]],
                get_absolute_region(MainRegions.score_region,
                                    call.frame.win[1], call.frame.win[2])))

\* C8: analyze_game_image lets no exception of a detector escape: when one
\* detector fails, the snapshot holds its "nothing found" default (0 for the
\* score) and every other detector has still contributed its result.
C8_NoDetectorExceptionEscapes ==
  call.fn = "analyze_game_image" =>
     /\ raised = "none"
     /\ result # None
     /\ ScoreRoiIsEmpty => result.score = 0
     /\ Len(result.stations) = Len(call.frame.stations)

\* the default region of the reader that was called (lines 33, 52, 71, 391)
ReaderDefault ==
  CASE call.fn = "detect_score" -> <<800, 0, 180, 100>>
    [] call.fn = "detect_available_trains" -> <<100, 850, 200, 100>>
    [] call.fn = "detect_available_tunnels" -> <<700, 850, 200, 100>>
    [] call.fn = "detect_available_wagons" -> <<100, 750, 200, 100>>

ReaderRoiIsEmpty ==
  IsEmpty(RoiOf(call.image,
                get_absolute_region(IF call.region = <<>> THEN ReaderDefault ELSE call.region,
                                    call.win[1], call.win[2])))

\* C9: the numeric readers never raise: they return 0 when the resolved ROI has
\* no pixel and when the OCR text holds no digit, and otherwise the integer
\* formed by the digit characters of the OCR text in order.
C9_ReadersNeverRaise ==
  (call.fn \in Readers /\ raised # "pending") =>
     /\ raised = "none"
     /\ result = IF ReaderRoiIsEmpty \/ Digits(call.text) = <<>>
                 THEN 0 ELSE IntOf(Digits(call.text))

\* C10 as stated: for every fractional region (negative and out-of-range
\* fractions included) and every frame size, get_absolute_region equals the
\* floor of each product, each axis on its own.
C10_RegionIsFloor ==
  (call.fn = "get_absolute_region" /\ raised = "none") =>
     result = <<(call.region[1] * call.win[1]) \div 1000,
                (call.region[2] * call.win[2]) \div 1000,
                (call.region[3] * call.win[1]) \div 1000,
                (call.region[4] * call.win[2]) \div 1000>>

\* c is the product p (in thousandths) with its fractional part dropped: not
\* further from 0 than p, less than one unit from it, and on the same side of 0
TowardZero(c, p) ==
  /\ (p >= 0) => (1000 * c <= p /\ p < 1000 * (c + 1))
  /\ (p <= 0) => (1000 * c >= p /\ p > 1000 * (c - 1))

\* C10 amended: get_absolute_region drops the fractional part of each product,
\* each axis on its own: the floor for a product that is not negative, the
\* ceiling for a negative one.
C10_RegionIsTruncation ==
  (call.fn = "get_absolute_region" /\ raised = "none") =>
     /\ Len(result) = 4
     /\ TowardZero(result[1], call.region[1] * call.win[1])
     /\ TowardZero(result[2], call.region[2] * call.win[2])
     /\ TowardZero(result[3], call.region[3] * call.win[1])
     /\ TowardZero(result[4], call.region[4] * call.win[2])

\* a region 0.001 left of the frame's edge, on a 333 x 7 window: x is 0, not -1
C10_NegativeFractionRounded ==
  /\ call.fn = "get_absolute_region" /\ raised = "none"
  /\ call.region[1] = -1 /\ call.win = <<333, 7>>
  /\ call.region[2] = 838 /\ call.region[4] = 1500
  /\ result[1] = 0 /\ result[2] = 5 /\ result[4] = 10

\* C11: classify_station_type returns "circle" for a noise-free filled circle,
\* "triangle" for a noise-free filled triangle and "square" for a noise-free
\* filled square, whichever of the shape and its ground is the light one.
C11_IdealShapesGetTheirName ==
  (call.fn = "classify_station_type" /\ raised = "none"
   /\ call.station_image.fill \in {"dark", "light"}) =>
     /\ call.station_image.contour = IdealCircle => result = "circle"
     /\ call.station_image.contour = IdealTriangle => result = "triangle"
     /\ call.station_image.contour = IdealSquare => result = "square"

\* C12: count_passengers_at_station returns the number of passenger icons
\* around the station box: 5 for a station surrounded by 5 icons.
C12_PassengersAreCounted ==
  (call.fn = "count_passengers_at_station" /\ raised = "none" /\ call.box = <<70, 70, 60, 60>>)
     => result = call.image.icons

\* the label the vertex-count rule gives a contour
VertexCountLabel(c) ==
  CASE c.vertices >= 8 -> "circle"
    [] c.vertices = 4 /\ 9 * c.bh < 10 * c.bw /\ 10 * c.bw < 11 * c.bh -> "square"
    [] c.vertices = 4 /\ ~(9 * c.bh < 10 * c.bw /\ 10 * c.bw < 11 * c.bh) -> "rectangle"
    [] c.vertices = 3 -> "triangle"
    [] c.vertices = 5 -> "pentagon"
    [] c.vertices = 6 -> "cross"
    [] c.vertices \in {0, 1, 2, 7} -> "unidentified"

\* C16: station shape classification decides by vertex count first (8 or more:
\* circle; 4: square when width / height is strictly between 0.9 and 1.1, else
\* rectangle; 3: triangle; 5: pentagon; 6: cross; anything else: unidentified),
\* in the classifier of detect_stations of every pipeline variant.
C16_VertexCountDecides ==
  /\ (call.fn = "detect_stations.shape" /\ raised = "none")
        => result = VertexCountLabel(call.contour)
  /\ (call.fn = "classify_station_type" /\ raised = "none"
      /\ call.station_image.fill = "dark")
        => result = VertexCountLabel(call.station_image.contour)

\* the width of the map region of the last detect_placed_lines call, in pixels
PlacedRegionWidth ==
  get_absolute_region(OrDefault(call.region, <<0, 0, 1000, 800>>), 800, 600)[3]

\* the contours of the last call that survive the width filter and whose
\* colour quantizes to key, as segments, in the order of detection
SegmentsOfKey(key) ==
  LET kept == SelectSeq(call.contours,
                        LAMBDA c : LineKept(c, PlacedRegionWidth) /\ ColorKey(c.color) = key)
  IN [i \in DOMAIN kept |->
        [start |-> kept[i].start, end |-> kept[i].end, color |-> kept[i].color]]

\* k is a multiple of 20 and no other multiple of 20 is nearer to x
NearestTwenty(k, x) == k % 20 = 0 /\ k - x <= 10 /\ x - k <= 10

\* C13: detect_placed_lines returns at most one entry per quantized colour
\* (each channel rounded to the nearest multiple of 20): contours whose colours
\* quantize to the same key are the segments of one entry, every surviving
\* contour is one segment of exactly one entry, and no entry is empty.
C13_OneEntryPerQuantizedColor ==
  (call.fn = "detect_placed_lines" /\ raised = "none") =>
     /\ \A i, j \in DOMAIN result : i # j => result[i].color # result[j].color
     /\ \A i \in DOMAIN result :
           /\ result[i].segments # <<>>
           /\ result[i].segments = SegmentsOfKey(result[i].color)
           /\ \A k \in DOMAIN result[i].segments : \A ch \in 1..3 :
                 NearestTwenty(result[i].color[ch], result[i].segments[k].color[ch])
     /\ \A n \in DOMAIN call.contours :
           LineKept(call.contours[n], PlacedRegionWidth)
              => \E i \in DOMAIN result : result[i].color = ColorKey(call.contours[n].color)

\* two contours of mean colours (9,200,30) and (10,200,30) share one entry
\* and a third of colour (11,200,30) has its own
C13_TwoShadesOneEntry ==
  /\ call.fn = "detect_placed_lines" /\ raised = "none"
  /\ Len(call.contours) = 3
  /\ Len(result) = 2
  /\ result[1].color = <<0, 200, 40>> /\ Len(result[1].segments) = 2
  /\ result[1].segments[1].color = <<9, 200, 30>>
  /\ result[1].segments[2].color = <<10, 200, 30>>
  /\ result[2].color = <<20, 200, 40>>

\* the region of the last detect_available_lines call, in pixels, and its ROI
LinesRect == get_absolute_region(OrDefault(call.region, <<350, 850, 300, 100>>), 800, 600)

LinesRoi == RoiOf([w |-> 800, h |-> 600], LinesRect)

\* the circles of the last call whose sample window has a pixel
Sampled ==
  {i \in DOMAIN call.circles :
     ~IsEmpty(SampleWindow(LinesRoi, LinesRect[3], LinesRect[4], call.circles[i]))}

\* C17 as stated: every circle goes to exactly one bucket: locked if the mean
\* saturation of its window is below 50, otherwise placed if its radius is at
\* least 12 % of the region width, else available; the counts sum to the number
\* of circles with a non-empty window and are 0 when there is no circle.
C17_BucketsByTwelvePercent ==
  (call.fn = "detect_available_lines" /\ raised = "none") =>
     /\ result["locked"] = Cardinality({i \in Sampled : call.circles[i].sat < 50})
     /\ result["placed"] =
          Cardinality({i \in Sampled : /\ call.circles[i].sat >= 50
                                       /\ 100 * call.circles[i].radius >= 12 * LinesRect[3]})
     /\ result["available"] =
          Cardinality({i \in Sampled : /\ call.circles[i].sat >= 50
                                       /\ 100 * call.circles[i].radius < 12 * LinesRect[3]})
     /\ result["locked"] + result["placed"] + result["available"] = Cardinality(Sampled)

\* C17 amended: the radius is compared with 12 % of the region width cut to
\* whole pixels: placed when radius + 1 exceeds the 12 %.
C17_BucketsByTruncatedTwelvePercent ==
  (call.fn = "detect_available_lines" /\ raised = "none") =>
     /\ result["locked"] = Cardinality({i \in Sampled : call.circles[i].sat < 50})
     /\ result["placed"] =
          Cardinality({i \in Sampled : /\ call.circles[i].sat >= 50
                                       /\ 100 * (call.circles[i].radius + 1) > 12 * LinesRect[3]})
     /\ result["available"] =
          Cardinality({i \in Sampled : /\ call.circles[i].sat >= 50
                                       /\ 100 * (call.circles[i].radius + 1) <= 12 * LinesRect[3]})
     /\ result["locked"] + result["placed"] + result["available"] = Cardinality(Sampled)
     /\ call.circles = <<>> =>
          result["locked"] = 0 /\ result["placed"] = 0 /\ result["available"] = 0

\* in the default region (240 pixels wide, 12 % is 28.8) a saturated circle of
\* radius 28 counts as placed, and a circle centred on the top edge is skipped
C17_Radius28IsPlaced ==
  /\ call.fn = "detect_available_lines" /\ raised = "none" /\ call.region = <<>>
  /\ call.circles = <<[cx |-> 100, cy |-> 18, radius |-> 28, sat |-> 50],
                      [cx |-> 1, cy |-> 0, radius |-> 7, sat |-> 49]>>
  /\ result["placed"] = 1 /\ result["available"] = 0 /\ result["locked"] = 0

\* C14: a previous object for which no acceptable match is found (here: no
\* detection within 30 units, an empty detection list included) is retained
\* unchanged, with missing = true, if its age exceeds 2, and is dropped from the
\* output and from the stored state if its age is 1 or 2.
C14_UnmatchedIsFlaggedOrDropped ==
  [][Tracked' =>
       \A k \in DOMAIN Stored :
          (/\ HasKey(Stored[k], "id") /\ HasKey(Stored[k], "age")
           /\ \A i \in DOMAIN call'.new_objects : ~Near(Stored[k], call'.new_objects[i]))
          => /\ raised' = "none"
             /\ Stored[k]["age"] > 2 =>
                   \E j \in DOMAIN Returned' : Returned'[j] = SetKey(Stored[k], "missing", TRUE)
             /\ Stored[k]["age"] <= 2 =>
                   /\ \A j \in DOMAIN Returned' :
                         Returned'[j] \notin {Stored[k], SetKey(Stored[k], "missing", TRUE)}
                   /\ \A j \in DOMAIN Stored' :
                         Stored'[j] \notin {Stored[k], SetKey(Stored[k], "missing", TRUE)}]_vars

\* the detection each of the first k previous objects gets (0 for none) when
\* each one, in stored order, takes the nearest detection within 30 units that
\* no earlier previous object has claimed
RECURSIVE NearestUnclaimed(_, _, _)
NearestUnclaimed(prev, new, k) ==
  IF k = 0 THEN <<>>
  ELSE LET before == NearestUnclaimed(prev, new, k - 1)
           cand == {i \in DOMAIN new : i \notin Range(before) /\ Near(prev[k], new[i])}
       IN Append(before,
                 IF cand = {} THEN 0
                 ELSE CHOOSE i \in cand :
                        \A j \in cand : \/ Dist2(prev[k], new[i]) < Dist2(prev[k], new[j])
                                        \/ /\ Dist2(prev[k], new[i]) = Dist2(prev[k], new[j])
                                           /\ i <= j)

\* C15: track_objects takes the previous objects in stored order and matches
\* each to the nearest detection not yet claimed by an earlier one; so a
\* previous object whose overall-nearest detection is already claimed is
\* matched to another unclaimed detection within 30 units.
C15_NearestUnclaimedIsMatched ==
  [][(Tracked' /\ \A k \in DOMAIN Stored : HasKey(Stored[k], "id") /\ HasKey(Stored[k], "age")) =>
       \A k \in DOMAIN Stored :
          LET m == NearestUnclaimed(Stored, call'.new_objects, Len(Stored))[k]
          IN m # 0 =>
               /\ raised' = "none"
               /\ \E j \in DOMAIN Returned' :
                     Returned'[j] = SetKey(SetKey(call'.new_objects[m], "id", Stored[k]["id"]),
                                           "age", Stored[k]["age"] + 1)]_vars

\* the window of station i of the last detect_station_demands call has no
\* pixel: the station has no box, a box under 10 pixels wide or high, or a
\* box whose right edge is at or beyond the frame's
WindowHasNoPixel(i) ==
  \/ ~HasKey(call.stations[i], "bbox")
  \/ call.stations[i]["bbox"][3] < 10
  \/ call.stations[i]["bbox"][4] < 10
  \/ call.stations[i]["bbox"][1] + call.stations[i]["bbox"][3]
       - call.stations[i]["bbox"][3] \div 10 >= 800

\* C18: detect_station_demands emits at most one entry per supplied station,
\* in input order, with the station's index as station_id; a station whose
\* window has no pixel is left out without ending the loop, and every other
\* station has an entry (its demand list may be empty).
C18_OneEntryPerStationWithWindow ==
  (call.fn = "detect_station_demands" /\ raised = "none") =>
     /\ \A i, j \in DOMAIN result : i < j => result[i].station_id < result[j].station_id
     /\ \A i \in DOMAIN result :
           /\ result[i].station_id + 1 \in DOMAIN call.stations
           /\ ~WindowHasNoPixel(result[i].station_id + 1)
     /\ \A n \in DOMAIN call.stations :
           ~WindowHasNoPixel(n) => \E i \in DOMAIN result : result[i].station_id = n - 1

\* a station without a window followed by one with a window: only the second
\* has an entry, under its index 1, and its too-small icon is not listed
C18_SecondStationAfterSkippedFirst ==
  /\ call.fn = "detect_station_demands" /\ raised = "none"
  /\ call.stations = <<[position |-> <<104, 104>>, bbox |-> <<100, 100, 8, 8>>],
                       [position |-> <<120, 120>>, bbox |-> <<100, 100, 40, 40>>]>>
  /\ Len(call.icons) = 3
  /\ result = <<[station_id |-> 1, demands |-> <<"circle", "bell">>]>>


\* C19: the recovery step (recalibration prompt or critical-error dialog) fires
\* on the fifth failed update tick in a row and leaves error_count at 0, and it
\* fires on no tick that is not the fifth failure in a row.
C19_RecoveryOnFifthFailure ==
  [][call'.fn = "update_analysis" =>
       /\ streak' = MAX_CONSECUTIVE_ERRORS => shown' # "none" /\ error_count' = 0
       /\ shown' # "none" => streak' = MAX_CONSECUTIVE_ERRORS]_vars

\* C20: a tick whose analysis returned data stores it as last_valid_data
\* exactly when there was no last valid result or the score rose by 0..100;
\* every other tick leaves last_valid_data alone, so the stored score never
\* falls and rises by at most 100 per replacement.
C20_AcceptedIffRiseWithinHundred ==
  [][IF call'.fn = "update_analysis"
     THEN LET produced == /\ analysis_running /\ call'.window /\ call'.capture
                          /\ call'.analysis = "data"
              accepted == /\ produced
                          /\ \/ last_valid_data = NoneData
                             \/ /\ call'.score - last_valid_data.score >= 0
                                /\ call'.score - last_valid_data.score <= 100
          IN  /\ accepted => last_valid_data' = [score |-> call'.score]
              /\ ~accepted => last_valid_data' = last_valid_data
              /\ last_valid_data # NoneData =>
                   /\ last_valid_data' # NoneData
                   /\ last_valid_data'.score >= last_valid_data.score
                   /\ last_valid_data'.score <= last_valid_data.score + 100
     ELSE last_valid_data' = last_valid_data]_vars

\* a tick reported 201 while 100 was the last valid score: the rise of 101 was
\* rejected and 100 stayed
C20_RiseOfHundredAndOneRejected ==
  /\ call.fn = "update_analysis"
  /\ analysis_running /\ call.window /\ call.capture
  /\ call.analysis = "data" /\ call.score = 201
  /\ last_valid_data = [score |-> 100]

\* the number of indices of seq that satisfy Test
CountOf(seq, Test(_)) == Cardinality({j \in DOMAIN seq : Test(seq[j])})

\* an output entry that came from a previous object: a match (age 2 or more)
\* or a lost object flagged missing
FromPrevious(e) == GetMissing(e) \/ (HasKey(e, "age") /\ e["age"] > 1)

\* the matching of the call that led to the primed state is one-to-one
MatchingIsOneToOne ==
  LET out == lists'[returned']
      new == lists'[new_objects']
  IN  \* a detection stands in the output at most once under its own identity
      /\ \A i \in DOMAIN new : CountOf(out, LAMBDA a : a = new[i]) <= 1
      \* the entries not flagged missing are the detections, each once
      /\ \A i \in DOMAIN call'.new_objects :
            CountOf(Returned', LAMBDA e : /\ ~GetMissing(e)
                                          /\ e["x"] = call'.new_objects[i]["x"]
                                          /\ e["y"] = call'.new_objects[i]["y"])
            = CountOf(call'.new_objects, LAMBDA d : /\ d["x"] = call'.new_objects[i]["x"]
                                                    /\ d["y"] = call'.new_objects[i]["y"])
      /\ CountOf(Returned', LAMBDA e : ~GetMissing(e)) = Len(call'.new_objects)
      \* every unmatched detection is a new object of age 1
      /\ \A j \in DOMAIN out : out[j] \in Range(new) => dicts'[out[j]]["age"] = 1
      \* the previous objects stand in the output at most once each
      /\ CountOf(Returned', FromPrevious) <= Len(Stored)
      /\ \A k \in DOMAIN Stored :
            CountOf(Returned', LAMBDA e : e = SetKey(Stored[k], "missing", TRUE))
            <= CountOf(Stored, LAMBDA q : q = Stored[k])

\* C23: a track_objects call with prior state returns a list in which the
\* matching is one-to-one: no detection is matched to two previous objects,
\* every detection stands exactly once in the output (as a match or as a new
\* object of age 1) and no previous object stands in it more than once.
C23_MatchingIsOneToOne ==
  [][(Tracked' /\ Stored # <<>>) => (raised' = "none" /\ MatchingIsOneToOne)]_vars

\* C21: every update_analysis tick, on every path (analysis off, window not
\* found, capture failure, validation failure, exception), schedules exactly
\* one next tick: exactly one update_analysis is waiting on the timer at any
\* time, never none and never two.
C21_OneUpdatePending == pending = 1

\* a tick whose capture failed below the fifth failure ended at the return of
\* line 276 and left one callback on the timer
C21_CaptureFailureRescheduled ==
  /\ call.fn = "update_analysis"
  /\ analysis_running /\ call.window /\ ~call.capture
  /\ shown = "none" /\ error_count > 0
  /\ pending = 1

\* C24: on an update tick whose capture returned no image, analyze_game_image
\* is not invoked and last_valid_data is left unchanged.
C24_NoAnalysisWithoutImage ==
  [][(call'.fn = "update_analysis" /\ analysis_running /\ call'.window /\ ~call'.capture)
       => (~invoked' /\ last_valid_data' = last_valid_data)]_vars

\* C28: in the snapshot analyze_game_image returns, the station demands are
\* those of the stations of the same frame: every station of the snapshot has
\* its station_demands entry.  (A station detect_stations reports has a box of
\* at least 20 x 20 pixels inside the image, lines 253-257, so the window of a
\* tenth of the box to each side of its upper right corner holds pixels.)
C28_DemandsForDetectedStations ==
  (call.fn = "analyze_game_image" /\ raised = "none") =>
     \A i \in DOMAIN Returned :
        \E j \in DOMAIN result.station_demands :
           result.station_demands[j].station_id = i - 1

\* C22: in the manual data collector line_available + line_placed never
\* exceeds 7, neither is negative, and line_placed is the number of entries of
\* current_data['lines'].
C22_LineSlotsWithinSeven ==
  /\ collector.line_available + collector.line_placed <= 7
  /\ collector.line_available >= 0
  /\ collector.line_placed >= 0
  /\ collector.line_placed = Len(collector.lines)

\* the spinbox asked for more than seven lines in all and was cut back
C22_CutBackToSeven ==
  /\ call.fn = "update_line_resources"
  /\ collector.line_placed >= 1
  /\ collector.line_available + collector.line_placed = 7

\* C27: recording is never on while the game is off, and toggle_recording
\* changes something only while the game is on.
C27_RecordingOnlyInGame ==
  /\ [](collector.recording => collector.game_active)
  /\ [][(call'.fn = "toggle_recording" /\ collector' # collector)
          => collector.game_active]_vars

\* shift+R turned the recording on in a running game
C27_RecordingTurnedOn ==
  /\ call.fn = "toggle_recording"
  /\ collector.recording /\ collector.game_active

\* C25: removing a whole line gives back the tunnels that stop_line charged
\* for the segments of that line, and the tunnels resource is never negative.
\* The line taken is one whose stations are all still those stop_line put
\* there (intact); charged is what stop_line took for it.
C25_RemoveLineRefundsCharged ==
  [][/\ collector.tunnels >= 0 /\ collector'.tunnels >= 0
     /\ (call'.fn = "remove_line" /\ collector' # collector)
          => LET i == LineNear(collector, call'.args[1])
             IN  (i # None /\ collector.lines[i].intact)
                   => collector'.tunnels - collector.tunnels
                        = collector.lines[i].charged]_vars

\* the lines of c that hold the coordinates pos
LinesThrough(c, pos) ==
  {i \in DOMAIN c.lines : pos \in Range(c.lines[i].stations)}

\* C26: after remove_element has removed a station, no line that remains
\* holds the coordinates of that station, and every line the removal left
\* with fewer than two stations is gone, its slot back in line_available.
C26_RemovedStationLeavesNoTrace ==
  [][(call'.fn = "remove_element" /\ collector' # collector)
       => LET k == find_nearest_station(collector, call'.args[1])
              pos == collector.stations[k]
              short == {i \in LinesThrough(collector, pos) :
                          Len(collector.lines[i].stations) - 1 < 2}
          IN  k # None
                => /\ LinesThrough(collector', pos) = {}
                   /\ Len(collector'.lines)
                        = Len(collector.lines) - Cardinality(short)
                   /\ collector'.line_available
                        = collector.line_available + Cardinality(short)
                   /\ collector'.line_placed
                        = collector.line_placed - Cardinality(short)]_vars

====
